---------------------------- MODULE Spec2Model ----------------------------
(***************************************************************************)
(* A model of rsapar: the record reader (LinesWithSeparator), the          *)
(* sequential validated iterator and the parser_all fan-out of parser.rs,  *)
(* the record validator of schema.rs and the DecimalFormat of              *)
(* decimal_format.rs with its cache.                                       *)
(*                                                                         *)
(* Bytes and characters are integers (a byte is 0..255, a character is its *)
(* code point); a string is a sequence of them.  Names (cell names, line   *)
(* types, format types, alignments) are TLA+ strings.                      *)
(***************************************************************************)
EXTENDS Integers, Sequences, FiniteSets, TLC

VARIABLES
    separator,      \* LinesWithSeparator.separator: the raw separator text
    input,          \* the bytes of the data file behind LinesWithSeparator.reader
    cursor,         \* how many bytes of input the reader has consumed
    buf,            \* LinesWithSeparator.buf
    finished,       \* LinesWithSeparator.finished
    ret,            \* the items LinesWithSeparator::next has returned, in order
    aborted,        \* TRUE once a call has panicked
    schema,         \* the Schema that Schema::new returned
    record_text,    \* the record text given to validate_line
    record_number,  \* the record number given to validate_line
    result,         \* what validate_line returned (NoResult before the call)
    pc,             \* where the Parser is: "idle", "iter", "produce", "join", "done"
    current_line,   \* ProcessedLinesIterator.current_line
    items,          \* the items ProcessedLinesIterator::next has returned, in order
    all_line_number, \* parser_all's local line_number
    channel,        \* the (line_number, line_text) pairs sent and not yet received
    results,        \* per worker, the results vector of worker_handle
    returned,       \* what parser_all returned (None before it returns)
    decimal_format_cache, \* DECIMAL_FORMAT_CACHE: pattern -> DecimalFormat
    called_pattern, \* the pattern of the last DecimalFormat::new call
    decimal_format, \* what the last DecimalFormat::new call returned
    new_calls,      \* how many DecimalFormat::new calls have returned
    number_checked, \* the last validate_number call: its value and verdict
    threads,        \* per thread calling DecimalFormat::new: where it is in the call
    mutex           \* the thread holding the lock of DECIMAL_FORMAT_CACHE, 0 when free

readerVars == <<separator, input, cursor, buf, finished, ret>>

validatorVars == <<schema, record_text, record_number, result>>

parserVars == <<pc, current_line, items, all_line_number, channel, results, returned>>

decimalVars == <<decimal_format_cache, called_pattern, decimal_format, new_calls, number_checked,
                 threads, mutex>>

vars == <<separator, input, cursor, buf, finished, ret, aborted, schema, record_text,
          record_number, result, pc, current_line, items, all_line_number, channel,
          results, returned,
          decimal_format_cache, called_pattern, decimal_format, new_calls, number_checked,
          threads, mutex>>

(***************************************************************************)
(* Bounds of the model.                                                    *)
(***************************************************************************)
MaxDataLen == 4

MaxTextLen == 3

\* the most threads calling DecimalFormat::new, and the most calls they make
MaxThreads == 2
MaxCacheCalls == 4

MaxLineNumber == 2

\* the longest data file given to the Parser, and the most worker threads
MaxFileLen == 4

MaxWorkers == 2

(***************************************************************************)
(* Small helpers on sequences.                                             *)
(***************************************************************************)
Range(s) == {s[i] : i \in DOMAIN s}

SeqsUpTo(S, n) == UNION {[1..k -> S] : k \in 0..n}

Last(s) == s[Len(s)]

(***************************************************************************)
(* String::from_utf8: whether a byte sequence is well-formed UTF-8         *)
(* (the standard's table of well-formed byte sequences).                   *)
(***************************************************************************)
IsCont(b) == b >= 128 /\ b <= 191

RECURSIVE Utf8Valid(_)
Utf8Valid(b) ==
    IF b = <<>> THEN TRUE
    ELSE LET n == Len(b)
             b1 == b[1]
             Rest(k) == SubSeq(b, k + 1, n)
         IN  IF b1 < 128 THEN Utf8Valid(Rest(1))
             ELSE IF b1 >= 194 /\ b1 <= 223
                  THEN n >= 2 /\ IsCont(b[2]) /\ Utf8Valid(Rest(2))
             ELSE IF b1 >= 224 /\ b1 <= 239
                  THEN /\ n >= 3
                       /\ IsCont(b[2]) /\ IsCont(b[3])
                       /\ (b1 = 224 => b[2] >= 160)
                       /\ (b1 = 237 => b[2] <= 159)
                       /\ Utf8Valid(Rest(3))
             ELSE IF b1 >= 240 /\ b1 <= 244
                  THEN /\ n >= 4
                       /\ IsCont(b[2]) /\ IsCont(b[3]) /\ IsCont(b[4])
                       /\ (b1 = 240 => b[2] >= 144)
                       /\ (b1 = 244 => b[2] <= 143)
                       /\ Utf8Valid(Rest(4))
             ELSE FALSE

(***************************************************************************)
(* LinesWithSeparator::next, the separator expansion (parser.rs 77-93):    *)
(* the raw separator's characters, with backslash escapes expanded, each   *)
(* pushed as one byte (`as u8` keeps the low eight bits of the code point).*)
(***************************************************************************)
EscapeByte(ch) ==
    CASE ch = 110 -> 10      \* 'n' -> b'\n'
      [] ch = 114 -> 13      \* 'r' -> b'\r'
      [] ch = 116 -> 9       \* 't' -> b'\t'
      [] ch = 102 -> 12      \* 'f' -> b'\x0C'
      [] ch = 48  -> 0       \* '0' -> 0
      [] OTHER    -> ch % 256

RECURSIVE ExpandSeparator(_)
ExpandSeparator(chars) ==
    IF chars = <<>> THEN <<>>
    ELSE IF chars[1] = 92
         THEN IF Len(chars) = 1 THEN <<>>
              ELSE <<EscapeByte(chars[2])>> \o ExpandSeparator(SubSeq(chars, 3, Len(chars)))
         ELSE <<chars[1] % 256>> \o ExpandSeparator(SubSeq(chars, 2, Len(chars)))

(***************************************************************************)
(* LinesWithSeparator::next, the read loop (parser.rs 95-121): one byte at *)
(* a time from position cur, with the match index mi into the expanded     *)
(* separator.  The result says how the loop ended: "sep" (a separator was  *)
(* completed and cut off the buffer), "eof" (read_exact failed with        *)
(* UnexpectedEof) or "panic" (separator_bytes[match_index] out of bounds). *)
(***************************************************************************)
\* C3 mutant: the read loop without the truncate of line 105
RECURSIVE ReadLoopKeepsSeparator(_, _, _, _, _)
ReadLoopKeepsSeparator(sep, inp, cur, b, mi) ==
    IF cur >= Len(inp)
    THEN [end |-> "eof", cursor |-> cur, buf |-> b]
    ELSE LET byte == inp[cur + 1]
             b2 == Append(b, byte)
         IN  IF mi >= Len(sep)
             THEN [end |-> "panic", cursor |-> cur + 1, buf |-> b2]
             ELSE IF byte = sep[mi + 1]
                  THEN IF mi + 1 = Len(sep)
                       THEN [end |-> "sep", cursor |-> cur + 1, buf |-> b2]
                       ELSE ReadLoopKeepsSeparator(sep, inp, cur + 1, b2, mi + 1)
                  ELSE ReadLoopKeepsSeparator(sep, inp, cur + 1, b2, 0)

RECURSIVE ReadLoop(_, _, _, _, _)
ReadLoop(sep, inp, cur, b, mi) ==
    IF cur >= Len(inp)
    THEN [end |-> "eof", cursor |-> cur, buf |-> b]
    ELSE LET byte == inp[cur + 1]
             b2 == Append(b, byte)
         IN  IF mi >= Len(sep)
             THEN [end |-> "panic", cursor |-> cur + 1, buf |-> b2]
             ELSE IF byte = sep[mi + 1]
                  THEN IF mi + 1 = Len(sep)
                       THEN [end |-> "sep", cursor |-> cur + 1,
                             buf |-> SubSeq(b2, 1, Len(b2) - Len(sep))]
                       ELSE ReadLoop(sep, inp, cur + 1, b2, mi + 1)
                  ELSE ReadLoop(sep, inp, cur + 1, b2, 0)

(***************************************************************************)
(* One call of LinesWithSeparator::next (parser.rs 67-129) as a function   *)
(* of the reader's state: the item returned and the state left behind.     *)
(* An item records, besides what the caller sees (kind, line), what the    *)
(* call did: the bytes it examined (raw), the stretch of the input it      *)
(* consumed (from, to) and whether it ran into end-of-file (eof).          *)
(***************************************************************************)
NoneItem(cur) ==
    [kind |-> "None", line |-> <<>>, raw |-> <<>>, from |-> cur, to |-> cur, eof |-> TRUE]

ReaderCall(rawsep, inp, cur, b, fin) ==
    IF fin /\ b = <<>>
    THEN [item |-> NoneItem(cur), cursor |-> cur, buf |-> b, finished |-> fin,
          panic |-> FALSE]
    ELSE LET r == ReadLoop(ExpandSeparator(rawsep), inp, cur, b, 0)
             fin2 == fin \/ r.end = "eof"
             valid == Utf8Valid(r.buf)
         IN  IF r.end = "panic"
             THEN [item |-> NoneItem(cur), cursor |-> r.cursor, buf |-> r.buf,
                   finished |-> fin, panic |-> TRUE]
             ELSE [item |-> [kind |-> IF valid THEN "Ok" ELSE "Err",
                             line |-> IF valid THEN r.buf ELSE <<>>,
                             raw |-> r.buf, from |-> cur, to |-> r.cursor,
                             eof |-> (r.end = "eof")],
                   cursor |-> r.cursor,
                   buf |-> IF valid THEN <<>> ELSE r.buf,
                   finished |-> fin2,
                   panic |-> FALSE]

(***************************************************************************)
(* Option values: None is the empty sequence, Some(x) the sequence <<x>>.  *)
(***************************************************************************)
None == <<>>

Some(x) == <<x>>

(***************************************************************************)
(* DecimalFormat (decimal_format.rs).  A pattern is a sequence of          *)
(* characters; pattern_to_regex turns a sub-pattern into the text of a     *)
(* regular expression, which Regex::new compiles and is_match runs.        *)
(***************************************************************************)
\* a list of special characters that has "+" as well
special_chars_and_plus == {39, 40, 41, 48, 46, 44, 35, 59, 164, 37, 43}

\* ' ( ) 0 . , # ; U+00A4 %
special_chars == {39, 40, 41, 48, 46, 44, 35, 59, 164, 37}

\* a scan that starts a new sub-pattern at every ";", quoted or not
RECURSIVE SplitPatternsAnySemicolon(_, _)
SplitPatternsAnySemicolon(pattern, st) ==
    IF pattern = <<>> \/ ~st.ok THEN st
    ELSE LET c == pattern[1]
             rest == SubSeq(pattern, 2, Len(pattern))
             n == Len(st.patterns)
             pushed == [st.patterns EXCEPT ![n] = Append(@, c)]
         IN  IF c = 39
             THEN SplitPatternsAnySemicolon(rest, [st EXCEPT !.in_quotes = ~@,
                                                             !.patterns = pushed])
             ELSE IF ~st.in_quotes /\ c \notin special_chars
                  THEN [st EXCEPT !.ok = FALSE]
             ELSE IF c = 59
                  THEN SplitPatternsAnySemicolon(rest, [st EXCEPT !.patterns = Append(@, <<>>)])
             ELSE SplitPatternsAnySemicolon(rest, [st EXCEPT !.patterns = pushed])

\* DecimalFormat::new, the scan of lines 37-59: the sub-patterns, or an error.
\* st = [ok, in_quotes, patterns]
RECURSIVE SplitPatterns(_, _)
SplitPatterns(pattern, st) ==
    IF pattern = <<>> \/ ~st.ok THEN st
    ELSE LET c == pattern[1]
             rest == SubSeq(pattern, 2, Len(pattern))
             n == Len(st.patterns)
             pushed == [st.patterns EXCEPT ![n] = Append(@, c)]
         IN  IF c = 39
             THEN SplitPatterns(rest, [st EXCEPT !.in_quotes = ~@, !.patterns = pushed])
             ELSE IF ~st.in_quotes /\ c \notin special_chars
                  THEN [st EXCEPT !.ok = FALSE]
             ELSE IF c = 59 /\ ~st.in_quotes
                  THEN SplitPatterns(rest, [st EXCEPT !.patterns = Append(@, <<>>)])
             ELSE SplitPatterns(rest, [st EXCEPT !.patterns = pushed])

\* DecimalFormat::pattern_to_regex: the regex text of one sub-pattern.
RECURSIVE PatternBody(_, _)
PatternBody(pattern, in_quotes) ==
    IF pattern = <<>> THEN <<>>
    ELSE LET c == pattern[1]
             rest == SubSeq(pattern, 2, Len(pattern))
         IN  IF c = 39 THEN PatternBody(rest, ~in_quotes)
             ELSE IF in_quotes THEN <<c>> \o PatternBody(rest, in_quotes)
             ELSE (CASE c = 48  -> <<92, 100>>         \* 0 -> \d
                     [] c = 35  -> <<92, 100, 63>>     \* # -> \d?
                     [] c = 44  -> <<92, 44>>          \* , -> \,
                     [] c = 46  -> <<92, 46>>          \* . -> \.
                     [] c = 59  -> <<92, 59>>          \* ; -> \;
                     [] c = 164 -> <<92, 36>>          \* U+00A4 -> \$
                     [] OTHER   -> <<c>>) \o PatternBody(rest, in_quotes)

pattern_to_regex(pattern) == <<94>> \o PatternBody(pattern, FALSE) \o <<36>>

(***************************************************************************)
(* The regex crate, for the expressions pattern_to_regex writes.  An       *)
(* expression is a concatenation of atoms: ^ and $, \d (a decimal digit of *)
(* any script), an escaped character (itself), "." (any character but a    *)
(* line feed) and plain characters.  An atom may be followed by a run of   *)
(* the repetition operators ? + *, each optionally followed by the "lazy"  *)
(* mark ?, which changes no match set; parentheses group, and "[" opens a  *)
(* character class.  The patterns of this model write no "]", no "|", no   *)
(* "{", no operator behind a ")" and no escaped letter but d, so a class   *)
(* is never closed and those forms are not modelled.                       *)
(* An atom is [set, ch, min, many]: at least min (0 or 1) occurrences, and *)
(* more than one where many.                                               *)
(***************************************************************************)
IsRepetition(c) == c \in {63, 43, 42}

\* the run of repetition operators at re[k..]: where it ends, and what it
\* makes of an atom that is [min, many] so far
RECURSIVE RepetitionRun(_, _, _, _)
RepetitionRun(re, k, min, many) ==
    IF k > Len(re) \/ ~IsRepetition(re[k])
    THEN [next |-> k, min |-> min, many |-> many]
    ELSE RepetitionRun(re,
                       IF k + 1 <= Len(re) /\ re[k + 1] = 63 THEN k + 2 ELSE k + 1,
                       IF re[k] = 43 THEN min ELSE 0,
                       many \/ re[k] # 63)

\* st = [ok, depth, atoms]; k is the position in re
RECURSIVE ScanRegex(_, _, _)
\* the atom `atom`, written in re[k..k+w-1], with the operators behind it
ScanAtom(re, k, w, st, atom, run) ==
    ScanRegex(re, run.next,
              [st EXCEPT !.atoms = Append(@, [atom EXCEPT !.min = run.min,
                                                          !.many = run.many])])

ScanRegex(re, k, st) ==
    IF ~st.ok THEN st
    ELSE IF k > Len(re) THEN [st EXCEPT !.ok = (st.depth = 0)]
    ELSE CASE re[k] = 92 ->
                 IF k = Len(re) THEN [st EXCEPT !.ok = FALSE]
                 ELSE IF re[k + 1] = 100
                      THEN ScanAtom(re, k, 2, st,
                                    [set |-> "digit", ch |-> 0, min |-> 1, many |-> FALSE],
                                    RepetitionRun(re, k + 2, 1, FALSE))
                      ELSE IF re[k + 1] \in (65..90) \cup (97..122) \cup (48..57)
                           THEN [st EXCEPT !.ok = FALSE]
                           ELSE ScanAtom(re, k, 2, st,
                                    [set |-> "lit", ch |-> re[k + 1], min |-> 1, many |-> FALSE],
                                    RepetitionRun(re, k + 2, 1, FALSE))
           [] re[k] = 40 ->
                 IF k < Len(re) /\ IsRepetition(re[k + 1]) THEN [st EXCEPT !.ok = FALSE]
                 ELSE ScanRegex(re, k + 1, [st EXCEPT !.depth = @ + 1])
           [] re[k] = 41 ->
                 IF st.depth = 0 \/ (k < Len(re) /\ IsRepetition(re[k + 1]))
                 THEN [st EXCEPT !.ok = FALSE]
                 ELSE ScanRegex(re, k + 1, [st EXCEPT !.depth = @ - 1])
           [] re[k] = 91 -> [st EXCEPT !.ok = FALSE]
           [] re[k] = 94 ->
                 ScanAtom(re, k, 1, st, [set |-> "start", ch |-> 0, min |-> 1, many |-> FALSE],
                          RepetitionRun(re, k + 1, 1, FALSE))
           [] re[k] = 36 ->
                 ScanAtom(re, k, 1, st, [set |-> "end", ch |-> 0, min |-> 1, many |-> FALSE],
                          RepetitionRun(re, k + 1, 1, FALSE))
           [] re[k] = 46 ->
                 ScanAtom(re, k, 1, st, [set |-> "any", ch |-> 0, min |-> 1, many |-> FALSE],
                          RepetitionRun(re, k + 1, 1, FALSE))
           [] OTHER ->
                 ScanAtom(re, k, 1, st, [set |-> "lit", ch |-> re[k], min |-> 1, many |-> FALSE],
                          RepetitionRun(re, k + 1, 1, FALSE))

\* Regex::new: ok says whether the expression compiles, atoms is what it
\* compiles to
RegexAtoms(re) == ScanRegex(re, 1, [ok |-> TRUE, depth |-> 0, atoms |-> <<>>])

\* \d is Unicode-aware: the ASCII digits and, in this model, the
\* Arabic-Indic digits U+0660..U+0669
AtomTakes(atom, ch) ==
    CASE atom.set = "digit" -> (ch >= 48 /\ ch <= 57) \/ (ch >= 1632 /\ ch <= 1641)
      [] atom.set = "any"   -> ch # 10
      [] atom.set = "lit"   -> ch = atom.ch
      [] OTHER              -> FALSE

\* whether atoms[i..] match s from position j on (up to any position, the
\* end being an atom of its own); again tells that atoms[i] has matched
\* already and may match once more
RECURSIVE AtomsMatch(_, _, _, _, _)
AtomsMatch(atoms, i, s, j, again) ==
    IF i > Len(atoms) THEN TRUE
    ELSE \/ /\ atoms[i].min = 0 \/ again
            /\ AtomsMatch(atoms, i + 1, s, j, FALSE)
         \/ /\ atoms[i].set = "start"
            /\ j = 1
            /\ AtomsMatch(atoms, i + 1, s, j, FALSE)
         \/ /\ atoms[i].set = "end"
            /\ j = Len(s) + 1
            /\ AtomsMatch(atoms, i + 1, s, j, FALSE)
         \/ /\ j <= Len(s)
            /\ AtomTakes(atoms[i], s[j])
            /\ IF atoms[i].many
               THEN AtomsMatch(atoms, i, s, j + 1, TRUE)
               ELSE AtomsMatch(atoms, i + 1, s, j + 1, FALSE)

\* Regex::is_match of a compiled expression: a match starting anywhere
RegexIsMatch(re, s) ==
    \E j \in 1..(Len(s) + 1) : AtomsMatch(RegexAtoms(re).atoms, 1, s, j, FALSE)

\* DecimalFormat::new without the cache (lines 36-75): the two expressions,
\* or the error message
DecimalFormatErr(message) ==
    [ok |-> FALSE, error |-> message, positive_regex |-> <<>>, negative_regex |-> <<>>]

DecimalFormatNew(pattern) ==
    LET sp == SplitPatterns(pattern, [ok |-> TRUE, in_quotes |-> FALSE, patterns |-> <<<<>>>>])
        positive_pattern == sp.patterns[1]
        negative_pattern == <<45>> \o (IF Len(sp.patterns) >= 2 THEN sp.patterns[2]
                                       ELSE positive_pattern)
        positive_regex == pattern_to_regex(positive_pattern)
        negative_regex == pattern_to_regex(negative_pattern)
    IN  IF ~sp.ok THEN DecimalFormatErr("Invalid character")
        ELSE IF Len(sp.patterns) > 2 THEN DecimalFormatErr("Invalid pattern")
        ELSE IF ~RegexAtoms(positive_regex).ok \/ ~RegexAtoms(negative_regex).ok
             THEN DecimalFormatErr("Invalid regex pattern")
        ELSE [ok |-> TRUE, error |-> "", positive_regex |-> positive_regex,
              negative_regex |-> negative_regex]

\* C29 mutant: what the call made is inserted whether it succeeded or not
DecimalFormatInsertAlways(cache, pattern, made) ==
    [result |-> made,
     cache |-> [q \in DOMAIN cache \cup {pattern} |->
                  IF q = pattern THEN made ELSE cache[q]]]

\* DecimalFormat::new (lines 28-80), the cache being locked for the whole
\* call: a cached DecimalFormat is returned as it is, a new one is inserted
\* only when every step succeeded.  [result, cache]
DecimalFormatInsert(cache, pattern, made) ==
    [result |-> made,
     cache |-> IF made.ok
               THEN [q \in DOMAIN cache \cup {pattern} |->
                        IF q = pattern THEN made ELSE cache[q]]
               ELSE cache]

DecimalFormatNewCached(cache, pattern) ==
    IF pattern \in DOMAIN cache
    THEN [result |-> cache[pattern], cache |-> cache]
    ELSE DecimalFormatInsert(cache, pattern, DecimalFormatNew(pattern))

\* DecimalFormat::validate_number
validate_number(df, value) ==
    RegexIsMatch(df.positive_regex, value) \/ RegexIsMatch(df.negative_regex, value)

(***************************************************************************)
(* The schema (schema.rs 11-63).  A Cell is                                *)
(*   [name, length, start, end, format, linecondition_type,                *)
(*    linecondition_pattern, alignment, padcharacter]                      *)
(* with format an Option of [ctype, pattern, regex_pattern]; a Line is     *)
(*   [linetype, maxlength, padcharacter, cell]                             *)
(* and a schema is [lineseparator, lines] (the FixedWidthSchema that       *)
(* Schema.fixedwidthschema holds).                                         *)
(***************************************************************************)

\* str::is_char_boundary
IsCharBoundary(text, i) ==
    \/ i = 0
    \/ i = Len(text)
    \/ (i < Len(text) /\ ~IsCont(text[i + 1]))

\* str::get(start..end): None unless the range lies inside the text, on
\* character boundaries
StrGet(text, start, end) ==
    IF /\ start <= end
       /\ end <= Len(text)
       /\ IsCharBoundary(text, start)
       /\ IsCharBoundary(text, end)
    THEN Some(SubSeq(text, start + 1, end))
    ELSE None

\* str::trim_start_matches / trim_end_matches / trim_matches with a slice of
\* characters (pad characters of the model are ASCII: one byte each)
RECURSIVE TrimStart(_, _)
TrimStart(v, pads) ==
    IF v # <<>> /\ v[1] \in pads THEN TrimStart(SubSeq(v, 2, Len(v)), pads) ELSE v

RECURSIVE TrimEnd(_, _)
TrimEnd(v, pads) ==
    IF v # <<>> /\ v[Len(v)] \in pads THEN TrimEnd(SubSeq(v, 1, Len(v) - 1), pads) ELSE v

TrimBoth(v, pads) == TrimEnd(TrimStart(v, pads), pads)

\* The string-format expressions of the model's schemas, as text:
\* "^[0-9]+$", "^H" and ".*" compile; "(" does not.
RegexDigits == <<94, 91, 48, 45, 57, 93, 43, 36>>

RegexStartsH == <<94, 72>>

RegexAny == <<46, 42>>

RegexBroken == <<40>>

\* regex::Regex::new on a string-format pattern: whether it compiles
StringRegexCompiles(pattern) == pattern \in {RegexDigits, RegexStartsH, RegexAny}

\* regex::Regex::is_match for the compiled string-format expressions
StringRegexIsMatch(pattern, v) ==
    CASE pattern = RegexDigits  -> v # <<>> /\ \A i \in DOMAIN v : v[i] >= 48 /\ v[i] <= 57
      [] pattern = RegexStartsH -> \E i \in DOMAIN v : v[i] = 72 /\ i = 1
      [] OTHER                  -> TRUE

\* The date pattern of the model's schemas, "%d"
PatternDay == <<37, 100>>

\* chrono::NaiveDate::parse_from_str(v, pattern).is_ok() for that pattern: a
\* day of the month alone determines no date, so no text parses
NaiveDateParses(v, pattern) == FALSE

\* results of validate_cell: Ok(value), Err(message), or a panic
CellOk(v) == [kind |-> "Ok", value |-> v, message |-> <<>>]

CellErr(m) == [kind |-> "Err", value |-> <<>>, message |-> m]

CellPanic == [kind |-> "Panic", value |-> <<>>, message |-> <<>>]

\* Schema::validate_cell (schema.rs 447-522)
validate_cell(cell, line_text) ==
    LET got == StrGet(line_text, cell.start, cell.end)
    IN  IF got = None
        THEN CellErr(<<"[err:003]", cell.name, "range", "invalid", cell.start, cell.end>>)
        ELSE
        LET cell_value == got[1]
        IN  IF cell.format = None THEN CellOk(cell_value)
            ELSE
            LET format == cell.format[1]
                pads == Range(cell.padcharacter)
                cell_alignment ==
                    IF cell.alignment = "" /\ format.ctype = "number" THEN "right"
                    ELSE IF cell.alignment = "" THEN "left"
                    ELSE cell.alignment
                trimmed ==
                    CASE cell_alignment = "right"  -> TrimStart(cell_value, pads)
                      [] cell_alignment = "left"   -> TrimEnd(cell_value, pads)
                      [] cell_alignment = "center" -> TrimBoth(cell_value, pads)
                      [] OTHER                     -> cell_value
                fail(code) == CellErr(<<code, cell.name, format.ctype, "pattern", format.pattern>>)
            IN  CASE format.ctype = "date" ->
                        IF NaiveDateParses(trimmed, format.pattern)
                        THEN CellOk(trimmed) ELSE fail("[err:004]")
                  [] format.ctype = "string" ->
                        IF format.regex_pattern # None
                        THEN IF StringRegexIsMatch(format.regex_pattern[1], trimmed)
                             THEN CellOk(trimmed) ELSE fail("[err:005]")
                        ELSE fail("[err:006]")
                  [] format.ctype = "number" ->
                        LET formatter == DecimalFormatNew(format.pattern)
                        IN  IF ~formatter.ok THEN CellPanic
                            ELSE IF validate_number(formatter, trimmed)
                                 THEN CellOk(trimmed) ELSE fail("[err:007]")
                  [] OTHER -> CellOk(cell_value)

HasCondition(cell) == cell.linecondition_pattern # None

\* Schema::get_binding (schema.rs 286-295), where fixedwidthschema is Some
get_binding(sch) == sch.fixedwidthschema[1]

\* C26 mutant: the lines with a conditioned cell, each with all its cells
get_line_conditions_all_cells(sch) ==
    LET conds(line) == SelectSeq(line.cell, HasCondition)
        keep(line) == conds(line) # <<>>
        lines == get_binding(sch).lines
    IN  [i \in 1..Len(SelectSeq(lines, keep)) |->
            LET line == SelectSeq(lines, keep)[i]
            IN  [linetype |-> line.linetype, cells |-> line.cell]]

\* Schema::get_line_conditions (schema.rs 220-235)
get_line_conditions(sch) ==
    LET conds(line) == SelectSeq(line.cell, HasCondition)
        keep(line) == conds(line) # <<>>
        lines == get_binding(sch).lines
    IN  [i \in 1..Len(SelectSeq(lines, keep)) |->
            LET line == SelectSeq(lines, keep)[i]
            IN  [linetype |-> line.linetype, cells |-> conds(line)]]

\* C8 mutant: the first line without condition, however many there are
get_first_line_without_condition_any(sch) ==
    LET free(line) == \A i \in DOMAIN line.cell : ~HasCondition(line.cell[i])
        lines_without_condition == SelectSeq(get_binding(sch).lines, free)
    IN  IF lines_without_condition = <<>> THEN None
        ELSE Some(lines_without_condition[1])

\* Schema::get_first_line_without_condition (schema.rs 239-257)
get_first_line_without_condition(sch) ==
    LET free(line) == \A i \in DOMAIN line.cell : ~HasCondition(line.cell[i])
        lines_without_condition == SelectSeq(get_binding(sch).lines, free)
    IN  IF Len(lines_without_condition) > 1 THEN None
        ELSE IF lines_without_condition = <<>> THEN None
        ELSE Some(lines_without_condition[1])

\* Schema::get_line_by_linetype (schema.rs 272-276)
get_line_by_linetype(sch, linetype) ==
    LET lines == get_binding(sch).lines
        hits == {i \in DOMAIN lines : lines[i].linetype = linetype}
    IN  IF hits = {} THEN None
        ELSE Some(lines[CHOOSE i \in hits : \A j \in hits : i <= j])

\* find_matching_schema_linetype, the inner loop over one candidate's
\* conditioned cells (schema.rs 303-332): the final line_condition_met, or
\* "Panic" (the slice line_text[start..end] out of range or off a character
\* boundary, validate_cell panicking, or todo!() on a match type other than
\* "string")
RECURSIVE ConditionLoop(_, _, _, _)
\* C25 mutant: a comparison that succeeded is kept whatever the later cells
\* compare to
ConditionLoopStepAnyCell(cells, i, line_text, met, c, sliced, checked) ==
    IF sliced = None THEN "Panic"
    ELSE IF checked.kind = "Panic" THEN "Panic"
    ELSE IF checked.kind = "Err" THEN ConditionLoop(cells, i + 1, line_text, met)
    ELSE IF c.linecondition_type = None \/ c.linecondition_type = Some("string")
         THEN ConditionLoop(cells, i + 1, line_text,
                            met \/ sliced[1] = c.linecondition_pattern[1])
         ELSE "Panic"

\* one turn of the loop: c is the cell, sliced the slice of line 305 (None
\* where it panics), checked what validate_cell gave
ConditionLoopStep(cells, i, line_text, met, c, sliced, checked) ==
    IF sliced = None THEN "Panic"
    ELSE IF checked.kind = "Panic" THEN "Panic"
    ELSE IF checked.kind = "Err" THEN ConditionLoop(cells, i + 1, line_text, met)
    ELSE IF c.linecondition_type = None \/ c.linecondition_type = Some("string")
         THEN ConditionLoop(cells, i + 1, line_text,
                            sliced[1] = c.linecondition_pattern[1])
         ELSE "Panic"

ConditionLoop(cells, i, line_text, met) ==
    IF i > Len(cells) THEN (IF met THEN "Met" ELSE "NotMet")
    ELSE ConditionLoopStep(cells, i, line_text, met, cells[i],
                           StrGet(line_text, cells[i].start, cells[i].end),
                           validate_cell(cells[i], line_text))

\* find_matching_schema_linetype, the loop over the candidates (schema.rs
\* 301-337): the match_line_name it ends with ("" when nothing matched), or
\* a panic
RECURSIVE CandidateLoop(_, _, _)
\* one turn of the loop, r being what the loop over the candidate's cells gave
CandidateLoopStep(conds, k, line_text, r) ==
    IF r = "Panic" THEN [panic |-> TRUE, match_line_name |-> ""]
    ELSE IF r = "Met" THEN [panic |-> FALSE, match_line_name |-> conds[k].linetype]
    ELSE CandidateLoop(conds, k + 1, line_text)

CandidateLoop(conds, k, line_text) ==
    IF k > Len(conds) THEN [panic |-> FALSE, match_line_name |-> ""]
    ELSE CandidateLoopStep(conds, k, line_text,
                           ConditionLoop(conds[k].cells, 1, line_text, FALSE))

\* find_matching_schema_linetype, its end (schema.rs 339-347), m being what
\* the loop over the candidates gave
matched_line(sch, m) ==
    IF m.panic THEN [panic |-> TRUE, line |-> None]
    ELSE IF m.match_line_name = ""
         THEN [panic |-> FALSE, line |-> get_first_line_without_condition(sch)]
         ELSE [panic |-> FALSE, line |-> get_line_by_linetype(sch, m.match_line_name)]

\* Schema::find_matching_schema_linetype (schema.rs 298-348): an Option of
\* the selected line, or a panic
find_matching_schema_linetype(sch, line_text, schema_lines_with_condition) ==
    matched_line(sch, CandidateLoop(schema_lines_with_condition, 1, line_text))

\* IndexMap::insert: a new key goes last, a known key keeps its place and
\* takes the new value
IndexMapInsert(map, key, value) ==
    IF \E i \in DOMAIN map : map[i][1] = key
    THEN [i \in DOMAIN map |-> IF map[i][1] = key THEN <<key, value>> ELSE map[i]]
    ELSE Append(map, <<key, value>>)

\* Schema::validate_line, the loop over the selected line's cells (schema.rs
\* 411-424)
RECURSIVE CellLoop(_, _, _, _)
\* C11 mutant: the loop goes on after a failing cell, the last error wins
CellLoopStepLastError(cells, i, line_text, cell_values, r) ==
    IF r.kind = "Panic"
    THEN [kind |-> "Panic", cell_values |-> <<>>, message |-> <<>>]
    ELSE IF r.kind = "Err"
         THEN IF CellLoop(cells, i + 1, line_text, cell_values).kind = "Ok"
              THEN [kind |-> "Err", cell_values |-> <<>>, message |-> r.message]
              ELSE CellLoop(cells, i + 1, line_text, cell_values)
    ELSE CellLoop(cells, i + 1, line_text,
                  IndexMapInsert(cell_values, cells[i].name, r.value))

\* one turn of the loop, r being what validate_cell gave for cells[i]
CellLoopStep(cells, i, line_text, cell_values, r) ==
    IF r.kind = "Panic"
    THEN [kind |-> "Panic", cell_values |-> <<>>, message |-> <<>>]
    ELSE IF r.kind = "Err"
         THEN [kind |-> "Err", cell_values |-> <<>>, message |-> r.message]
    ELSE CellLoop(cells, i + 1, line_text,
                  IndexMapInsert(cell_values, cells[i].name, r.value))

CellLoop(cells, i, line_text, cell_values) ==
    IF i > Len(cells) THEN [kind |-> "Ok", cell_values |-> cell_values, message |-> <<>>]
    ELSE CellLoopStep(cells, i, line_text, cell_values, validate_cell(cells[i], line_text))

\* results of validate_line: ProcessedLineOk, ProcessedLineError, or a panic
LineOk(n, linetype, cell_values) ==
    [kind |-> "Ok", line_number |-> n, linetype |-> linetype,
     cell_values |-> cell_values, message |-> <<>>]

LineErr(n, m) ==
    [kind |-> "Err", line_number |-> n, linetype |-> "", cell_values |-> <<>>,
     message |-> m]

LinePanic ==
    [kind |-> "Panic", line_number |-> 0, linetype |-> "", cell_values |-> <<>>,
     message |-> <<>>]

NoResult ==
    [kind |-> "NotRun", line_number |-> 0, linetype |-> "", cell_values |-> <<>>,
     message |-> <<>>]

\* C9 mutant: only a record longer than maxlength is rejected
maxlength_mismatch_too_long(match_line, line_text) ==
    match_line.maxlength > 0 /\ Len(line_text) > match_line.maxlength

\* Schema::validate_line, the condition of the length check (schema.rs 398):
\* str::len is the length in bytes
maxlength_mismatch(match_line, line_text) ==
    match_line.maxlength > 0 /\ Len(line_text) # match_line.maxlength

\* Schema::validate_line, the result once the cells of the line have been
\* validated (schema.rs 426-439), r being what the loop over the cells gave
validate_line_cells(line_number, match_line, r) ==
    CASE r.kind = "Panic" -> LinePanic
      [] r.kind = "Err"   -> LineErr(line_number, r.message)
      [] OTHER            -> LineOk(line_number, match_line.linetype, r.cell_values)

\* Schema::validate_line from the length check on (schema.rs 397-440),
\* match_line being the selected line
validate_line_against(line_number, line_text, match_line) ==
    IF maxlength_mismatch(match_line, line_text)
    THEN LineErr(line_number,
                 <<"[err:002]", "line", "maxlength", "the line has length",
                   Len(line_text), "but was expected", match_line.maxlength>>)
    ELSE validate_line_cells(line_number, match_line,
                             CellLoop(match_line.cell, 1, line_text, <<>>))

\* Schema::validate_line after the selection (schema.rs 386-440), found being
\* what find_matching_schema_linetype gave
validate_line_found(line_number, line_text, found) ==
    IF found.panic THEN LinePanic
    ELSE IF found.line = None
         THEN LineErr(line_number,
                      <<"[err:001]", "line", "no match found for schema line type">>)
    ELSE validate_line_against(line_number, line_text, found.line[1])

\* Schema::validate_line (schema.rs 378-440); get_binding panics when the
\* schema holds no fixedwidthschema
validate_line(sch, line_number, line_text) ==
    IF sch.fixedwidthschema = None THEN LinePanic
    ELSE validate_line_found(line_number, line_text,
             find_matching_schema_linetype(sch, line_text, get_line_conditions(sch)))

(***************************************************************************)
(* Schema::new (schema.rs 67-216).  The XML document is the sequence of    *)
(* the events EventReader yields for it: StartElement (name, attributes)   *)
(* and EndElement (name); an attribute is a pair <<name, value>>.          *)
(***************************************************************************)
StartElement(name, attributes) == [event |-> "start", name |-> name, attributes |-> attributes]

EndElement(name) == [event |-> "end", name |-> name, attributes |-> <<>>]

HasAttr(attributes, name) == \E i \in DOMAIN attributes : attributes[i][1] = name

\* the value a loop `for attr in attributes` leaves in a field it assigns
\* on the attribute called name, starting from default
AttrOr(attributes, name, default) ==
    IF HasAttr(attributes, name)
    THEN attributes[CHOOSE i \in DOMAIN attributes :
                        /\ attributes[i][1] = name
                        /\ \A j \in DOMAIN attributes : attributes[j][1] = name => j <= i][2]
    ELSE default

\* str::parse::<usize>().unwrap_or(0) on the attribute texts of the model
ParseUsizeOr0(v) ==
    CASE v = "1" -> 1
      [] v = "2" -> 2
      [] v = "3" -> 3
      [] v = "4" -> 4
      [] OTHER   -> 0

\* str::to_lowercase on the type names of the model
ToLowercase(v) ==
    CASE v = "String" -> "string"
      [] v = "Number" -> "number"
      [] v = "Date"   -> "date"
      [] OTHER        -> v

NewLine ==
    [linetype |-> "", maxlength |-> 0, padcharacter |-> <<32>>, cell |-> <<>>]

LoaderInit ==
    [ok |-> TRUE,
     schema |-> [fixedwidthschema |-> None],
     temp_line |-> NewLine,
     in_line |-> FALSE,
     in_cell |-> FALSE,
     temp_format |-> None,
     end_cell |-> 0,
     seen_linetypes |-> {}]

\* the last cell of temp_line changed by f (temp_line.cell.last_mut())
WithLastCell(st, f(_)) ==
    IF st.temp_line.cell = <<>> THEN st
    ELSE [st EXCEPT !.temp_line.cell[Len(st.temp_line.cell)] = f(@)]

\* one StartElement (schema.rs 84-188)
OnStart(st, e) ==
    LET a == e.attributes
    IN  CASE e.name = "fixedwidthschema" ->
                [st EXCEPT !.schema.fixedwidthschema =
                    Some([lineseparator |-> AttrOr(a, "lineseparator", <<10>>),
                          lines |-> <<>>])]
          [] e.name = "line" ->
                IF HasAttr(a, "linetype") /\ AttrOr(a, "linetype", "") \in st.seen_linetypes
                THEN [st EXCEPT !.ok = FALSE]
                ELSE [st EXCEPT
                        !.in_line = TRUE,
                        !.seen_linetypes =
                            IF HasAttr(a, "linetype")
                            THEN @ \cup {AttrOr(a, "linetype", "")} ELSE @,
                        !.temp_line =
                            [linetype |-> AttrOr(a, "linetype", ""),
                             maxlength |-> ParseUsizeOr0(AttrOr(a, "maxlength", "")),
                             padcharacter |-> AttrOr(a, "padcharacter", <<32>>),
                             cell |-> <<>>]]
          [] e.name = "cell" /\ st.in_line ->
                LET length == ParseUsizeOr0(AttrOr(a, "length", ""))
                    end_cell == st.end_cell + length
                IN  [st EXCEPT
                        !.in_cell = TRUE,
                        !.end_cell = end_cell,
                        !.temp_line.cell = Append(@,
                            [name |-> AttrOr(a, "name", ""),
                             length |-> length,
                             start |-> end_cell - length,
                             end |-> end_cell,
                             format |-> None,
                             linecondition_type |-> None,
                             linecondition_pattern |-> None,
                             alignment |-> AttrOr(a, "alignment", ""),
                             padcharacter |->
                                 AttrOr(a, "padcharacter", st.temp_line.padcharacter)])]
          [] e.name = "format" /\ st.in_cell ->
                LET ctype == ToLowercase(AttrOr(a, "type", ""))
                    pattern == AttrOr(a, "pattern", <<>>)
                IN  IF ctype = "string" /\ ~StringRegexCompiles(pattern)
                    THEN [st EXCEPT !.ok = FALSE]
                    ELSE [st EXCEPT !.temp_format =
                            Some([ctype |-> ctype, pattern |-> pattern,
                                  regex_pattern |->
                                      IF ctype = "string" THEN Some(pattern) ELSE None])]
          [] e.name = "match" /\ st.in_cell ->
                LET set(c) == [c EXCEPT
                        !.linecondition_type = Some(ToLowercase(AttrOr(a, "type", ""))),
                        !.linecondition_pattern = Some(AttrOr(a, "pattern", <<>>))]
                IN  WithLastCell(st, set)
          [] OTHER -> st

\* one EndElement (schema.rs 189-209)
OnEnd(st, e) ==
    CASE e.name = "cell" /\ st.in_cell ->
            LET set(c) == [c EXCEPT !.format = st.temp_format]
            IN  [WithLastCell(st, set) EXCEPT
                    !.temp_format = IF st.temp_line.cell = <<>> THEN @ ELSE None,
                    !.in_cell = FALSE]
      [] e.name = "line" /\ st.in_line ->
            [st EXCEPT
                !.schema.fixedwidthschema =
                    IF @ = None THEN @
                    ELSE Some([@[1] EXCEPT !.lines = Append(@, st.temp_line)]),
                !.in_line = FALSE,
                !.end_cell = 0]
      [] OTHER -> st

\* the loop over the events (schema.rs 82-213): stops at the first error
RECURSIVE LoadEvents(_, _, _)
LoadEvents(doc, i, st) ==
    IF i > Len(doc) \/ ~st.ok THEN st
    ELSE LoadEvents(doc, i + 1,
                    IF doc[i].event = "start" THEN OnStart(st, doc[i]) ELSE OnEnd(st, doc[i]))

\* Schema::new: [ok |-> TRUE, schema |-> the schema] or [ok |-> FALSE, ...]
SchemaNew(doc) ==
    LET st == LoadEvents(doc, 1, LoaderInit)
    IN  [ok |-> st.ok, schema |-> st.schema]

(***************************************************************************)
(* The reader on its own: a data file and a raw separator, and calls of    *)
(* next().                                                                 *)
(***************************************************************************)
\* 'A', '\n', '\r' and 0xFF (a byte no UTF-8 text contains)
DataBytes == {65, 10, 13, 255}

\* "\n" as the schema loader's default (a real line feed), the escaped forms
\* \n and \r\n, the empty string, a lone backslash and "AA"; the escaped
\* forms \t, \f, \0 and \A; U+00E9 and an escaped U+010A
RawSeparators ==
    { <<10>>, <<92, 110>>, <<92, 114, 92, 110>>, <<>>, <<92>>, <<65, 65>>,
      <<92, 116>>, <<92, 102>>, <<92, 48>>, <<92, 65>>, <<233>>, <<92, 266>> }

MaxCalls == MaxDataLen + 3

\* no Parser has been built
ParserIdle ==
    /\ pc = "idle"
    /\ current_line = 0
    /\ items = <<>>
    /\ all_line_number = 0
    /\ channel = <<>>
    /\ results = <<>>
    /\ returned = None

\* no DecimalFormat has been asked for
NotChecked == [called |-> FALSE, value |-> <<>>, accepted |-> FALSE]

\* a thread that is not inside DecimalFormat::new: the pattern and the
\* result of its last call, and whether the cache served it
ThreadIdle == [at |-> "idle", pattern |-> <<>>, format |-> None, hit |-> FALSE]

DecimalIdle ==
    /\ decimal_format_cache = <<>>
    /\ called_pattern = <<>>
    /\ decimal_format = None
    /\ new_calls = 0
    /\ number_checked = NotChecked
    /\ threads = [t \in 1..MaxThreads |-> ThreadIdle]
    /\ mutex = 0

ReaderInit ==
    /\ separator \in RawSeparators
    /\ input \in SeqsUpTo(DataBytes, MaxDataLen)
    /\ cursor = 0
    /\ buf = <<>>
    /\ finished = FALSE
    /\ ret = <<>>
    /\ aborted = FALSE
    /\ schema = [fixedwidthschema |-> None]
    /\ record_text = <<>>
    /\ record_number = 0
    /\ result = NoResult
    /\ ParserIdle
    /\ DecimalIdle

ReaderNext ==
    /\ ~aborted
    /\ Len(ret) < MaxCalls
    /\ LET c == ReaderCall(separator, input, cursor, buf, finished)
       IN  /\ cursor' = c.cursor
           /\ buf' = c.buf
           /\ finished' = c.finished
           /\ aborted' = c.panic
           /\ ret' = IF c.panic THEN ret ELSE Append(ret, c.item)
    /\ UNCHANGED <<separator, input>>
    /\ UNCHANGED validatorVars
    /\ UNCHANGED parserVars
    /\ UNCHANGED decimalVars

SpecReader == ReaderInit /\ [][ReaderNext]_vars


(***************************************************************************)
(* The validator on its own: a schema that Schema::new loaded, a record    *)
(* text and a record number, and one call of Schema::validate_line.        *)
(*                                                                         *)
(* The XML documents of the model, written with the helpers below.         *)
(***************************************************************************)
XElement(name, attributes, children) ==
    <<StartElement(name, attributes)>> \o children \o <<EndElement(name)>>

XFormat(type, pattern) ==
    XElement("format", << <<"type", type>>, <<"pattern", pattern>> >>, <<>>)

XMatch(attributes) ==
    XElement("linecondition", <<>>, XElement("match", attributes, <<>>))

XCondition(pattern) == XMatch(<< <<"type", "string">>, <<"pattern", pattern>> >>)

XCell(name, length, more, children) ==
    XElement("cell", << <<"name", name>>, <<"length", length>> >> \o more, children)

XLine(attributes, cells) == XElement("line", attributes, cells)

XSchema(lines) ==
    XElement("fixedwidthschema", << <<"lineseparator", <<92, 110>> >> >>, lines)

\* a header on "H" (Type, Amount as a number), a footer on "F" (Type, Count)
\* and a detail line (Type, Body as digits)
DocHeaderFooterDetail ==
    XSchema(
        XLine(<< <<"linetype", "Header">>, <<"maxlength", "3">> >>,
              XCell("Type", "1", <<>>, XCondition(<<72>>))
              \o XCell("Amount", "2", <<>>, XFormat("number", <<35, 48>>)))
        \o XLine(<< <<"linetype", "Footer">> >>,
              XCell("Type", "1", <<>>, XCondition(<<70>>))
              \o XCell("Count", "2", <<>>, <<>>))
        \o XLine(<< <<"linetype", "Detail">>, <<"maxlength", "2">> >>,
              XCell("Type", "1", <<>>, <<>>)
              \o XCell("Body", "1", <<>>, XFormat("String", RegexDigits))))

\* a conditioned line and two lines without condition: no default
DocTwoDefaults ==
    XSchema(
        XLine(<< <<"linetype", "A">> >>, XCell("a", "1", <<>>, <<>>))
        \o XLine(<< <<"linetype", "Header">> >>,
              XCell("Type", "1", <<>>, XCondition(<<72>>)))
        \o XLine(<< <<"linetype", "B">> >>, XCell("b", "2", <<>>, <<>>)))

\* conditioned lines only: no default
DocNoDefault ==
    XSchema(
        XLine(<< <<"linetype", "Header">> >>,
              XCell("Type", "1", <<>>, XCondition(<<72>>)))
        \o XLine(<< <<"linetype", "Footer">>, <<"maxlength", "1">> >>,
              XCell("Type", "1", <<>>, XCondition(<<70>>))))

\* a conditioned line that gives no linetype, and a detail line
DocUnnamedHeader ==
    XSchema(
        XLine(<< <<"maxlength", "2">> >>,
              XCell("Type", "1", <<>>, XCondition(<<72>>))
              \o XCell("Flag", "1", <<>>, <<>>))
        \o XLine(<< <<"linetype", "Detail">> >>,
              XCell("Body", "3", <<>>, XFormat("date", PatternDay))))

\* a line condition whose match type is "regex", and a detail line
DocRegexCondition ==
    XSchema(
        XLine(<< <<"linetype", "Header">> >>,
              XCell("Type", "1", <<>>,
                    XMatch(<< <<"type", "regex">>, <<"pattern", <<72>> >> >>)))
        \o XLine(<< <<"linetype", "Detail">> >>, XCell("Body", "1", <<>>, <<>>)))

\* a number format whose pattern, "0a", is no DecimalFormat
DocBadNumber ==
    XSchema(
        XLine(<< <<"linetype", "Detail">> >>,
              XCell("Type", "1", <<>>, <<>>)
              \o XCell("Amount", "1", <<>>, XFormat("number", <<48, 97>>))))

\* a line with two conditioned cells, the second one a number, and a detail
\* line whose cells are padded and aligned
DocTwoConditions ==
    XSchema(
        XLine(<< <<"linetype", "Pair">> >>,
              XCell("K1", "1", <<>>, XCondition(<<72>>))
              \o XCell("K2", "1", <<>>,
                       XFormat("number", <<48>>) \o XCondition(<<49>>)))
        \o XLine(<< <<"linetype", "Detail">>, <<"padcharacter", <<32>> >> >>,
              XCell("Left", "2", << <<"alignment", "left">> >>, XFormat("string", RegexAny))
              \o XCell("Mid", "1", << <<"alignment", "center">>, <<"padcharacter", <<49>> >> >>,
                       XFormat("string", RegexStartsH))))

\* a document without a fixedwidthschema element
DocOtherRoot == XElement("csvschema", <<>>, XLine(<<>>, XCell("a", "1", <<>>, <<>>)))

\* a line whose two cells have the same name
DocDuplicateCell ==
    XSchema(
        XLine(<< <<"linetype", "Detail">> >>,
              XCell("A", "1", <<>>, <<>>) \o XCell("A", "1", <<>>, <<>>)))

\* two lines, neither with a linetype attribute
DocTwoUnnamed ==
    XSchema(
        XLine(<< <<"maxlength", "1">> >>, XCell("a", "1", <<>>, <<>>))
        \o XLine(<<>>, XCell("b", "2", <<>>, <<>>)))

\* two lines with the same linetype attribute
DocDuplicateLinetype ==
    XSchema(
        XLine(<< <<"linetype", "A">> >>, XCell("a", "1", <<>>, <<>>))
        \o XLine(<< <<"linetype", "A">> >>, XCell("b", "2", <<>>, <<>>)))

\* a line whose first cell must be digits and whose second cell has a number
\* format that is no DecimalFormat
DocDigitsThenBadNumber ==
    XSchema(
        XLine(<< <<"linetype", "Detail">> >>,
              XCell("Code", "1", <<>>, XFormat("string", RegexDigits))
              \o XCell("Amount", "1", <<>>, XFormat("number", <<48, 97>>))))

\* a line element inside a line element: <line><cell/><line><cell/></line></line>
DocNestedLine ==
    XSchema(
        XElement("line", << <<"linetype", "Outer">> >>,
                 XCell("a", "1", <<>>, <<>>)
                 \o XLine(<< <<"linetype", "Inner">> >>, XCell("b", "1", <<>>, <<>>))))

\* a line that is longer than its cells: maxlength 2, one cell of length 1
DocWideLine ==
    XSchema(
        XLine(<< <<"linetype", "Wide">>, <<"maxlength", "2">> >>,
              XCell("a", "1", <<>>, XFormat("number", <<35>>))))

\* cells whose length attribute is "0", missing and not a number
DocZeroLength ==
    XSchema(
        XLine(<< <<"linetype", "Detail">> >>,
              XCell("a", "0", <<>>, <<>>)
              \o XElement("cell", << <<"name", "b">> >>, <<>>)
              \o XCell("c", "x", <<>>, <<>>)
              \o XCell("d", "1", <<>>, <<>>)))

\* a line with two conditioned cells without format, a line whose only
\* conditioned cell is a number, and a detail line
DocLastCondition ==
    XSchema(
        XLine(<< <<"linetype", "Pair">> >>,
              XCell("K1", "1", <<>>, XCondition(<<72>>))
              \o XCell("K2", "1", <<>>, XCondition(<<70>>)))
        \o XLine(<< <<"linetype", "Num">> >>,
              XCell("K", "1", <<>>, XFormat("number", <<48>>) \o XCondition(<<49>>)))
        \o XLine(<< <<"linetype", "Detail">> >>, XCell("Body", "1", <<>>, <<>>)))

Documents ==
    { DocHeaderFooterDetail, DocTwoDefaults, DocNoDefault, DocUnnamedHeader,
      DocRegexCondition, DocBadNumber, DocTwoConditions, DocOtherRoot,
      DocDuplicateCell, DocTwoUnnamed, DocDuplicateLinetype, DocDigitsThenBadNumber,
      DocNestedLine, DocWideLine, DocZeroLength, DocLastCondition }

\* the schemas Schema::new loads from them
LoadedSchemas == { SchemaNew(d).schema : d \in {d \in Documents : SchemaNew(d).ok} }

\* the characters of the record texts: H, F, 1, space, and U+00E9 (two bytes)
TextChars == { <<72>>, <<70>>, <<49>>, <<32>>, <<195, 169>> }

RECURSIVE Flatten(_)
Flatten(ss) == IF ss = <<>> THEN <<>> ELSE ss[1] \o Flatten(SubSeq(ss, 2, Len(ss)))

Texts == { Flatten(cs) : cs \in SeqsUpTo(TextChars, MaxTextLen) }

ValidateInit ==
    /\ schema \in LoadedSchemas
    /\ record_text \in Texts
    /\ record_number \in 1..MaxLineNumber
    /\ result = NoResult
    /\ separator = <<>>
    /\ input = <<>>
    /\ cursor = 0
    /\ buf = <<>>
    /\ finished = FALSE
    /\ ret = <<>>
    /\ aborted = FALSE
    /\ ParserIdle
    /\ DecimalIdle

ValidateLine ==
    /\ result = NoResult
    /\ result' = validate_line(schema, record_number, record_text)
    /\ aborted' = (result'.kind = "Panic")
    /\ UNCHANGED <<schema, record_text, record_number>>
    /\ UNCHANGED readerVars
    /\ UNCHANGED parserVars
    /\ UNCHANGED decimalVars

SpecValidate == ValidateInit /\ [][ValidateLine]_vars

(***************************************************************************)
(* The Parser (parser.rs): its own validate_line, validate_cell and line   *)
(* selection, the sequential ProcessedLinesIterator, and parser_all with   *)
(* its worker threads.  A ProcessedLine is [kind, line, message].          *)
(***************************************************************************)
ProcessedOk(n, m) == [kind |-> "Ok", line |-> n, message |-> m]

ProcessedErr(n, m) == [kind |-> "Err", line |-> n, message |-> m]

ProcessedPanic == [kind |-> "Panic", line |-> 0, message |-> <<>>]

\* Parser::validate_cell (parser.rs 415-498): "Ok", "Panic", or the message
Parser_validate_cell(cell, line_text) ==
    LET got == StrGet(line_text, cell.start, cell.end)
    IN  IF got = None
        THEN CellErr(<<"[err:003]", cell.name, "invalid range", cell.start, cell.end>>)
        ELSE
        LET cell_value == got[1]
        IN  IF cell.format = None THEN CellOk(<<>>)
            ELSE
            LET format == cell.format[1]
                pads == Range(cell.padcharacter)
                cell_alignment ==
                    IF cell.alignment = "" /\ format.ctype = "number" THEN "right"
                    ELSE IF cell.alignment = "" THEN "left"
                    ELSE cell.alignment
                trimmed ==
                    CASE cell_alignment = "right"  -> TrimStart(cell_value, pads)
                      [] cell_alignment = "left"   -> TrimEnd(cell_value, pads)
                      [] cell_alignment = "center" -> TrimBoth(cell_value, pads)
                      [] OTHER                     -> cell_value
                fail(code) == CellErr(<<code, cell.name, format.ctype, "pattern:", format.pattern>>)
            IN  CASE format.ctype = "date" ->
                        IF NaiveDateParses(trimmed, format.pattern)
                        THEN CellOk(<<>>) ELSE fail("[err:004]")
                  [] format.ctype = "string" ->
                        IF ~StringRegexCompiles(format.pattern) THEN CellPanic
                        ELSE IF StringRegexIsMatch(format.pattern, trimmed)
                             THEN CellOk(<<>>) ELSE fail("[err:005]")
                  [] format.ctype = "number" ->
                        LET formatter == DecimalFormatNew(format.pattern)
                        IN  IF ~formatter.ok THEN CellPanic
                            ELSE IF validate_number(formatter, trimmed)
                                 THEN CellOk(<<>>) ELSE fail("[err:006]")
                  [] OTHER -> CellOk(<<>>)

\* Parser::find_matching_schema_line_type, the loop over the conditioned
\* cells of one candidate (parser.rs 296-327)
RECURSIVE ParserConditionLoop(_, _, _, _)
\* one turn of the loop: c is the cell, sliced the slice of line 298 (None
\* where it panics), checked what Parser::validate_cell gave
ParserConditionLoopStep(cells, i, line_text, met, c, sliced, checked) ==
    IF sliced = None THEN "Panic"
    ELSE IF checked.kind = "Panic" THEN "Panic"
    ELSE IF checked.kind = "Err" THEN ParserConditionLoop(cells, i + 1, line_text, met)
    ELSE IF c.linecondition_type = None \/ c.linecondition_type = Some("string")
         THEN ParserConditionLoop(cells, i + 1, line_text,
                                  sliced[1] = c.linecondition_pattern[1])
         ELSE "Panic"

ParserConditionLoop(cells, i, line_text, met) ==
    IF i > Len(cells) THEN (IF met THEN "Met" ELSE "NotMet")
    ELSE ParserConditionLoopStep(cells, i, line_text, met, cells[i],
                                 StrGet(line_text, cells[i].start, cells[i].end),
                                 Parser_validate_cell(cells[i], line_text))

\* the loop over the candidates (parser.rs 294-332)
RECURSIVE ParserCandidateLoop(_, _, _)
\* one turn of the loop, r being what the loop over the candidate's cells gave
ParserCandidateLoopStep(conds, k, line_text, r) ==
    IF r = "Panic" THEN [panic |-> TRUE, match_line_name |-> ""]
    ELSE IF r = "Met" THEN [panic |-> FALSE, match_line_name |-> conds[k].linetype]
    ELSE ParserCandidateLoop(conds, k + 1, line_text)

ParserCandidateLoop(conds, k, line_text) ==
    IF k > Len(conds) THEN [panic |-> FALSE, match_line_name |-> ""]
    ELSE ParserCandidateLoopStep(conds, k, line_text,
                                 ParserConditionLoop(conds[k].cells, 1, line_text, FALSE))

\* Parser::find_matching_schema_line_type (parser.rs 288-340); its end
\* (lines 333-339) is that of Schema::find_matching_schema_linetype
find_matching_schema_line_type(line_text, schema_lines_with_condition, sch) ==
    matched_line(sch, ParserCandidateLoop(schema_lines_with_condition, 1, line_text))

\* Parser::validate_line, the loop over the cells (parser.rs 382-392): the
\* first error, None, or a panic
RECURSIVE ParserCellLoop(_, _, _)
\* one turn of the loop, r being what Parser::validate_cell gave for cells[i]
ParserCellLoopStep(cells, i, line_text, r) ==
    IF r.kind = "Panic" THEN [panic |-> TRUE, first_error |-> None]
    ELSE IF r.kind = "Err" THEN [panic |-> FALSE, first_error |-> Some(r.message)]
    ELSE ParserCellLoop(cells, i + 1, line_text)

ParserCellLoop(cells, i, line_text) ==
    IF i > Len(cells) THEN [panic |-> FALSE, first_error |-> None]
    ELSE ParserCellLoopStep(cells, i, line_text, Parser_validate_cell(cells[i], line_text))

\* Parser::validate_line, the result once the cells have been validated
\* (parser.rs 394-405), r being what the loop over the cells gave
Parser_validate_line_cells(n, line_text, r) ==
    IF r.panic THEN ProcessedPanic
    ELSE IF r.first_error # None THEN ProcessedErr(n, r.first_error[1])
    ELSE ProcessedOk(n, line_text)

\* Parser::validate_line from the length check on (parser.rs 369-405)
Parser_validate_line_against(n, line_text, match_line_name) ==
    IF match_line_name.maxlength > 0 /\ Len(line_text) # match_line_name.maxlength
    THEN ProcessedErr(n, <<"[err:002]", "line", "maxlength", "the line has length",
                           Len(line_text), "but was expected", match_line_name.maxlength>>)
    ELSE Parser_validate_line_cells(n, line_text,
                                    ParserCellLoop(match_line_name.cell, 1, line_text))

\* Parser::validate_line after the selection (parser.rs 358-405), found
\* being what find_matching_schema_line_type gave
Parser_validate_line_found(n, line_text, found) ==
    IF found.panic THEN ProcessedPanic
    ELSE IF found.line = None
         THEN ProcessedErr(n, <<"[err:001]", "line", "no match found for schema line type">>)
    ELSE Parser_validate_line_against(n, line_text, found.line[1])

\* Parser::validate_line (parser.rs 342-413)
Parser_validate_line(sch, n, line_text) ==
    IF sch.fixedwidthschema = None THEN ProcessedPanic
    ELSE Parser_validate_line_found(n, line_text,
             find_matching_schema_line_type(line_text, get_line_conditions(sch), sch))

\* Schema::get_newline_characters (schema.rs 279-282)
get_newline_characters(sch) == get_binding(sch).lineseparator

\* the message of the reader's io::Error
InvalidData == <<"stream did not contain valid UTF-8">>

\* 'H', '1', '\n' and 0xFF
FileBytes == {72, 49, 10, 255}

\* the schemas the Parser is built with
ParserSchemas == { SchemaNew(d).schema : d \in {DocHeaderFooterDetail, DocNoDefault} }

\* Parser::new (parser.rs 171-199), followed either by into_iter (parser.rs
\* 135-142) or by the start of parser_all with n_workers threads (parser.rs
\* 201-216)
ParserInit ==
    /\ schema \in ParserSchemas
    /\ separator = get_newline_characters(schema)
    /\ input \in SeqsUpTo(FileBytes, MaxFileLen)
    /\ cursor = 0
    /\ buf = <<>>
    /\ finished = FALSE
    /\ ret = <<>>
    /\ aborted = FALSE
    /\ record_text = <<>>
    /\ record_number = 0
    /\ result = NoResult
    /\ current_line = 0
    /\ items = <<>>
    /\ channel = <<>>
    /\ returned = None
    /\ DecimalIdle
    /\ \/ /\ pc = "iter"
          /\ all_line_number = 0
          /\ results = <<>>
       \/ /\ pc = "produce"
          /\ all_line_number = 1
          /\ \E n_workers \in 0..MaxWorkers : results = [w \in 1..n_workers |-> <<>>]

\* ProcessedLinesIterator::next, the closure given to map (parser.rs
\* 150-167): line is the reader's item, validated what Parser::validate_line
\* gives for it
IteratorItem(line, validated) ==
    CASE line.kind = "None" ->
            /\ items' = Append(items, [kind |-> "None", line |-> 0, message |-> <<>>])
            /\ UNCHANGED <<current_line, aborted>>
      [] line.kind = "Err" ->
            /\ items' = Append(items, ProcessedErr(0, InvalidData))
            /\ UNCHANGED <<current_line, aborted>>
      [] line.kind = "Ok" ->
            /\ current_line' = current_line + 1
            /\ aborted' = (validated.kind = "Panic")
            /\ items' = IF validated.kind = "Panic" THEN items
                        ELSE Append(items, validated)

\* the call of LinesWithSeparator::next made by the Parser, c being what it
\* gives
ParserRead(c) ==
    /\ cursor' = c.cursor
    /\ buf' = c.buf
    /\ finished' = c.finished
    /\ ret' = IF c.panic THEN ret ELSE Append(ret, c.item)

IteratorStep(c) ==
    /\ ParserRead(c)
    /\ IF c.panic
       THEN aborted' = TRUE /\ UNCHANGED <<current_line, items>>
       ELSE IteratorItem(c.item,
                         Parser_validate_line(schema, current_line + 1, c.item.line))

\* ProcessedLinesIterator::next (parser.rs 148-168)
IteratorNext ==
    /\ pc = "iter"
    /\ ~aborted
    /\ Len(items) < MaxFileLen + 3
    /\ IteratorStep(ReaderCall(separator, input, cursor, buf, finished))
    /\ UNCHANGED <<separator, input, schema, record_text, record_number, result>>
    /\ UNCHANGED <<pc, all_line_number, channel, results, returned>>
    /\ UNCHANGED decimalVars

\* parser_all, the body of the loop over the lines (parser.rs 220-247)
ProducerItem(line_result) ==
    CASE line_result.kind = "None" ->
            pc' = "join" /\ UNCHANGED <<aborted, all_line_number, channel, returned>>
      [] line_result.kind = "Err" ->
            /\ returned' = Some([kind |-> "Err",
                                 errors |-> <<[line |-> all_line_number,
                                               message |-> <<"Failed to read line">>]>>])
            /\ pc' = "done"
            /\ UNCHANGED <<aborted, all_line_number, channel>>
      [] line_result.kind = "Ok" ->
            /\ channel' = Append(channel, <<all_line_number, line_result.line>>)
            /\ all_line_number' = all_line_number + 1
            /\ UNCHANGED <<aborted, pc, returned>>

ProducerRead(c) ==
    /\ ParserRead(c)
    /\ IF c.panic
       THEN aborted' = TRUE /\ UNCHANGED <<pc, all_line_number, channel, returned>>
       ELSE ProducerItem(c.item)

\* parser_all, one turn of the loop over the lines (parser.rs 219-248) and,
\* when the lines are exhausted, drop(sender) (parser.rs 249)
ProducerStep ==
    /\ pc = "produce"
    /\ ~aborted
    /\ ProducerRead(ReaderCall(separator, input, cursor, buf, finished))
    /\ UNCHANGED <<separator, input, schema, record_text, record_number, result>>
    /\ UNCHANGED <<current_line, items, results>>
    /\ UNCHANGED decimalVars

\* whether worker w's thread has panicked
WorkerDead(w) == results[w] # <<>> /\ Last(results[w]).kind = "Panic"

\* worker_handle, one turn of its loop over the receiver (parser.rs 280-283)
WorkerTake(w) ==
    /\ pc \in {"produce", "join"}
    /\ ~aborted
    /\ ~WorkerDead(w)
    /\ channel # <<>>
    /\ channel' = Tail(channel)
    /\ results' = [results EXCEPT
                     ![w] = Append(@, Parser_validate_line(schema, channel[1][1], channel[1][2]))]
    /\ UNCHANGED <<readerVars, aborted, schema, record_text, record_number, result>>
    /\ UNCHANGED <<pc, current_line, items, all_line_number, returned>>
    /\ UNCHANGED decimalVars

RECURSIVE CollectErrors(_, _)
\* parser_all, the loops over the handles and their results (parser.rs
\* 252-265): the errors of workers w.., in the order of the handles
CollectErrors(res, w) ==
    IF w > Len(res) THEN <<>>
    ELSE LET isErr(r) == r.kind = "Err"
             errs == SelectSeq(res[w], isErr)
         IN  [i \in DOMAIN errs |-> [line |-> errs[i].line, message |-> errs[i].message]]
             \o CollectErrors(res, w + 1)

\* parser_all, from the joins to the return (parser.rs 251-271); a worker is
\* joined once it has left its loop, the channel being empty and the sender
\* dropped, or once it has panicked
Join ==
    /\ pc = "join"
    /\ ~aborted
    /\ channel = <<>> \/ \A w \in DOMAIN results : WorkerDead(w)
    /\ IF \E w \in DOMAIN results : WorkerDead(w)
       THEN aborted' = TRUE /\ UNCHANGED <<pc, returned>>
       ELSE /\ pc' = "done"
            /\ returned' = LET return_errors == CollectErrors(results, 1)
                           IN  IF return_errors # <<>>
                               THEN Some([kind |-> "Err", errors |-> return_errors])
                               ELSE Some([kind |-> "Ok", errors |-> <<>>])
            /\ UNCHANGED aborted
    /\ UNCHANGED <<readerVars, schema, record_text, record_number, result>>
    /\ UNCHANGED <<current_line, items, all_line_number, channel, results>>
    /\ UNCHANGED decimalVars

ParserNext ==
    \/ IteratorNext
    \/ ProducerStep
    \/ \E w \in DOMAIN results : WorkerTake(w)
    \/ Join

SpecParser == ParserInit /\ [][ParserNext]_vars

(***************************************************************************)
(* DecimalFormat on its own: DecimalFormat::new is called for a pattern,   *)
(* then again for the same pattern or for one of two others, and           *)
(* validate_number is called on what the last call returned.               *)
(***************************************************************************)
MaxPatternLen == 3

MaxNumberLen == 2

MaxNewCalls == 2

\* 0 # . ; ' +
PatternChars == {48, 35, 46, 59, 39, 43}

\* the patterns of tests::test_validate_number (decimal_format.rs 129-150):
\* "0,##0.00;(#,##0.000)", "0.#0,##0", "';#'##0", "#######0.00"
TestPatterns ==
    { <<48, 44, 35, 35, 48, 46, 48, 48, 59, 40, 35, 44, 35, 35, 48, 46, 48, 48, 48, 41>>,
      <<48, 46, 35, 48, 44, 35, 35, 48>>,
      <<39, 59, 35, 39, 35, 35, 48>>,
      <<35, 35, 35, 35, 35, 35, 35, 48, 46, 48, 48>> }

Patterns == SeqsUpTo(PatternChars, MaxPatternLen) \cup TestPatterns

\* the patterns a later call may ask for: "0" and "+"
RecallPatterns == { <<48>>, <<43>> }

\* 5 - . x
NumberChars == {53, 45, 46, 120}

\* the values of tests::test_validate_number: "2,234.56", "-1,234.560",
\* "1234.56", "1234", "2.20,125", ";#123", "00204000.00"
TestNumbers ==
    { <<50, 44, 50, 51, 52, 46, 53, 54>>,
      <<45, 49, 44, 50, 51, 52, 46, 53, 54, 48>>,
      <<49, 50, 51, 52, 46, 53, 54>>,
      <<49, 50, 51, 52>>,
      <<50, 46, 50, 48, 44, 49, 50, 53>>,
      <<59, 35, 49, 50, 51>>,
      <<48, 48, 50, 48, 52, 48, 48, 48, 46, 48, 48>> }

Numbers == SeqsUpTo(NumberChars, MaxNumberLen) \cup TestNumbers

DecimalInit ==
    /\ separator = <<>>
    /\ input = <<>>
    /\ cursor = 0
    /\ buf = <<>>
    /\ finished = FALSE
    /\ ret = <<>>
    /\ aborted = FALSE
    /\ schema = [fixedwidthschema |-> None]
    /\ record_text = <<>>
    /\ record_number = 0
    /\ result = NoResult
    /\ ParserIdle
    /\ DecimalIdle

\* one call of DecimalFormat::new, r being [result, cache]
NewReturns(pattern, r) ==
    /\ called_pattern' = pattern
    /\ decimal_format' = Some(r.result)
    /\ decimal_format_cache' = r.cache
    /\ new_calls' = new_calls + 1

NewCall ==
    /\ new_calls < MaxNewCalls
    /\ ~number_checked.called
    /\ \E pattern \in (IF new_calls = 0 THEN Patterns
                        ELSE {called_pattern} \cup RecallPatterns) :
          NewReturns(pattern, DecimalFormatNewCached(decimal_format_cache, pattern))
    /\ UNCHANGED <<number_checked, threads, mutex>>
    /\ UNCHANGED <<readerVars, aborted, validatorVars, parserVars>>

\* one call of validate_number on the DecimalFormat the last call returned
ValidateNumber ==
    /\ decimal_format # None
    /\ decimal_format[1].ok
    /\ ~number_checked.called
    /\ \E value \in Numbers :
          number_checked' = [called |-> TRUE, value |-> value,
                             accepted |-> validate_number(decimal_format[1], value)]
    /\ UNCHANGED <<decimal_format_cache, called_pattern, decimal_format, new_calls>>
    /\ UNCHANGED <<threads, mutex>>
    /\ UNCHANGED <<readerVars, aborted, validatorVars, parserVars>>

DecimalNext ==
    \/ NewCall
    \/ ValidateNumber

SpecDecimal == DecimalInit /\ [][DecimalNext]_vars

(***************************************************************************)
(* DecimalFormat::new called from several threads (decimal_format.rs       *)
(* 28-80).  A call takes the lock of DECIMAL_FORMAT_CACHE at line 30 and    *)
(* holds it until it returns, so the lookup, the compilation and the insert *)
(* of one call are one step for every other thread.                        *)
(***************************************************************************)
\* "0", "#", "+" (a character outside the set) and "'['" (a quoted bracket,
\* which the regex compiler refuses)
CachePatterns == { <<48>>, <<35>>, <<43>>, <<39, 91, 39>> }

\* the calls that have started and not returned
CallsInFlight == Cardinality({t \in DOMAIN threads : threads[t].at # "idle"})

\* a thread enters DecimalFormat::new(pattern) and reaches cache.lock()
CacheCall(t) ==
    /\ threads[t].at = "idle"
    /\ new_calls + CallsInFlight < MaxCacheCalls
    /\ \E pattern \in CachePatterns :
          threads' = [threads EXCEPT ![t] = [at |-> "lock", pattern |-> pattern,
                                             format |-> None, hit |-> FALSE]]
    /\ UNCHANGED <<decimal_format_cache, called_pattern, decimal_format, new_calls,
                   number_checked, mutex>>
    /\ UNCHANGED <<readerVars, aborted, validatorVars, parserVars>>

\* cache.lock() returns once no other thread holds the lock (line 30)
CacheLock(t) ==
    /\ threads[t].at = "lock"
    /\ mutex = 0
    /\ mutex' = t
    /\ threads' = [threads EXCEPT ![t].at = "locked"]
    /\ UNCHANGED <<decimal_format_cache, called_pattern, decimal_format, new_calls,
                   number_checked>>
    /\ UNCHANGED <<readerVars, aborted, validatorVars, parserVars>>

\* the rest of the call under the lock (lines 32-80), r being [result,
\* cache]; returning drops cache_guard
CacheReturns(t, r) ==
    /\ threads' = [threads EXCEPT ![t] =
                      [at |-> "idle", pattern |-> threads[t].pattern,
                       format |-> Some(r.result),
                       hit |-> threads[t].pattern \in DOMAIN decimal_format_cache]]
    /\ decimal_format_cache' = r.cache
    /\ called_pattern' = threads[t].pattern
    /\ decimal_format' = Some(r.result)
    /\ new_calls' = new_calls + 1
    /\ mutex' = 0

CacheNew(t) ==
    /\ threads[t].at = "locked"
    /\ mutex = t
    /\ CacheReturns(t, DecimalFormatNewCached(decimal_format_cache, threads[t].pattern))
    /\ UNCHANGED number_checked
    /\ UNCHANGED <<readerVars, aborted, validatorVars, parserVars>>

CacheNext ==
    \E t \in 1..MaxThreads :
        \/ CacheCall(t)
        \/ CacheLock(t)
        \/ CacheNew(t)

SpecCache == DecimalInit /\ [][CacheNext]_vars

(***************************************************************************)
(* Claims about the record reader, checked under SpecReader.               *)
(***************************************************************************)
IsNone(item) == item.kind = "None"

\* The bytes of the input that belong to the record an item stands for: the
\* stretch the call consumed, less the separator that ended it.
OwnBytes(item) ==
    SubSeq(input, item.from + 1,
           item.to - (IF item.eof THEN 0 ELSE Len(ExpandSeparator(separator))))

\* C1: the reader reaches exhaustion and exhaustion is sticky, also when the
\* bytes left at end-of-file are not valid UTF-8: a call made after
\* end-of-file has been reached, or after None has been returned, returns None.
C1_ExhaustedAfterEof ==
    [][ (finished \/ (ret # <<>> /\ IsNone(Last(ret))))
          => (ret' # ret => IsNone(Last(ret'))) ]_vars

\* C2: at end-of-file a final record is emitted if and only if bytes remain
\* in the buffer after the last separator (so an input ending with the
\* separator, or an empty input, yields no extra empty record).
C2_FinalRecordIffResidual ==
    ExpandSeparator(separator) # <<>> =>
        \A k \in DOMAIN ret :
            (~IsNone(ret[k]) /\ ret[k].eof) => ret[k].raw # <<>>

\* The input read as r1 S r2 S ... S rn, no record holding a byte of S:
\* ok says whether it has that shape, recs are r1..rn.
RECURSIVE C3_Split(_, _)
C3_Split(inp, S) ==
    LET hits == {i \in DOMAIN inp : inp[i] \in Range(S)}
        k == IF hits = {} THEN Len(inp) + 1
             ELSE CHOOSE i \in hits : \A j \in hits : i <= j
        r == SubSeq(inp, 1, k - 1)
    IN  IF k > Len(inp) THEN [ok |-> TRUE, recs |-> <<r>>]
        ELSE IF k + Len(S) - 1 <= Len(inp) /\ SubSeq(inp, k, k + Len(S) - 1) = S
             THEN LET t == C3_Split(SubSeq(inp, k + Len(S), Len(inp)), S)
                  IN  [ok |-> t.ok, recs |-> <<r>> \o t.recs]
             ELSE [ok |-> FALSE, recs |-> <<>>]

C3_Pre ==
    LET S == ExpandSeparator(separator)
        p == C3_Split(input, S)
    IN  /\ S # <<>>
        /\ p.ok
        /\ Last(p.recs) # <<>>
        /\ \A i \in DOMAIN p.recs : Utf8Valid(p.recs[i])

\* C3: records r1..rn (text, rn non-empty) free of separator bytes, written
\* as r1 S r2 S ... S rn, are read back as exactly r1, ..., rn in that order,
\* without the separator bytes, and then nothing more.
C3_SplitsInOrder ==
    C3_Pre =>
        LET recs == C3_Split(input, ExpandSeparator(separator)).recs
        IN  /\ ~aborted
            /\ \A k \in DOMAIN ret :
                  IF k <= Len(recs)
                  THEN ret[k].kind = "Ok" /\ ret[k].line = recs[k]
                  ELSE IsNone(ret[k])

\* C3 witness: two non-empty records around a two-byte separator, read to
\* exhaustion.
C3_Witness ==
    /\ C3_Pre
    /\ Len(ExpandSeparator(separator)) = 2
    /\ Len(C3_Split(input, ExpandSeparator(separator)).recs) = 2
    /\ C3_Split(input, ExpandSeparator(separator)).recs[1] # <<>>
    /\ Len(ret) = 3
    /\ IsNone(Last(ret))

\* C5: after an error item for a record that is not valid UTF-8, the next
\* call yields the record that follows it in the file, made of exactly its
\* own bytes (nothing of the failed record is carried over).
C5_ErrorDoesNotDamage ==
    \A k \in DOMAIN ret :
        (k >= 2 /\ ret[k - 1].kind = "Err" /\ ~ret[k - 1].eof /\ ~IsNone(ret[k]))
            => /\ ret[k].raw = OwnBytes(ret[k])
               /\ (Utf8Valid(OwnBytes(ret[k]))
                     => ret[k].kind = "Ok" /\ ret[k].line = OwnBytes(ret[k]))


(***************************************************************************)
(* Claims about the record validator, checked under SpecValidate.          *)
(***************************************************************************)
Ran == result.kind # "NotRun"

Bound == schema.fixedwidthschema # None

SchemaLines == get_binding(schema).lines

ConditionedCells(line) == SelectSeq(line.cell, HasCondition)

\* Whether a line's condition is met by the record: the conditioned cells
\* whose own validation passes are evaluated, and the last one of them
\* compares equal to its pattern.
ConditionMet(line, text) ==
    LET cc == ConditionedCells(line)
        ev == {i \in DOMAIN cc : validate_cell(cc[i], text).kind = "Ok"}
    IN  /\ ev # {}
        /\ LET m == CHOOSE i \in ev : \A j \in ev : j <= i
           IN  SubSeq(text, cc[m].start + 1, cc[m].end) = cc[m].linecondition_pattern[1]

\* the candidates (lines with a conditioned cell) whose condition is met
MetCandidates ==
    {i \in DOMAIN SchemaLines :
        ConditionedCells(SchemaLines[i]) # <<>> /\ ConditionMet(SchemaLines[i], record_text)}

\* the lines without a conditioned cell
UnconditionedLines ==
    {i \in DOMAIN SchemaLines : ConditionedCells(SchemaLines[i]) = <<>>}

\* the line validate_line selected, by the model of the selection
Selected ==
    find_matching_schema_linetype(schema, record_text, get_line_conditions(schema))

\* Whether the result is one that validating the record against `line` gives:
\* the line's type and cells on success, its maxlength in err:002, one of its
\* cells in a cell error.
ResultIsOf(line) ==
    CASE result.kind = "Ok" ->
            /\ result.linetype = line.linetype
            /\ \A k \in DOMAIN result.cell_values :
                  \E i \in DOMAIN line.cell : line.cell[i].name = result.cell_values[k][1]
      [] result.kind = "Err" /\ result.message[1] = "[err:001]" -> FALSE
      [] result.kind = "Err" /\ result.message[1] = "[err:002]" ->
            result.message[7] = line.maxlength
      [] result.kind = "Err" ->
            \E i \in DOMAIN line.cell : line.cell[i].name = result.message[2]
      [] OTHER -> FALSE

ErrorCodes ==
    {"[err:001]", "[err:002]", "[err:003]", "[err:004]", "[err:005]", "[err:006]",
     "[err:007]"}

\* C6: validate_line is total: for every loaded schema and every record text
\* it returns Ok or an Err whose message starts with one of the codes
\* [err:001]..[err:007]; it never aborts.
C6_ValidateLineIsTotal ==
    (Ran /\ Bound) =>
        \/ result.kind = "Ok"
        \/ result.kind = "Err" /\ result.message[1] \in ErrorCodes

\* C7: selection takes the first candidate, in schema order, whose condition
\* is met: the record is validated against that line.
C7_FirstMetCandidateIsSelected ==
    (Ran /\ Bound /\ result.kind # "Panic" /\ MetCandidates # {}) =>
        ResultIsOf(SchemaLines[CHOOSE i \in MetCandidates : \A j \in MetCandidates : i <= j])

C9_MaxLengthCheck ==
    (Ran /\ Bound /\ ~Selected.panic /\ Selected.line # None) =>
        LET M == Selected.line[1].maxlength
            N == Len(record_text)
            rejected == LineErr(record_number,
                                <<"[err:002]", "line", "maxlength", "the line has length",
                                  N, "but was expected", M>>)
        IN  /\ (M > 0 /\ N # M) => result = rejected
            /\ ~(M > 0 /\ N # M)
                  => ~(result.kind = "Err" /\ result.message[1] = "[err:002]")

\* C9 witness: a record of the wrong length, one of whose cells is also
\* invalid, was rejected with err:002.
C9_Witness ==
    /\ Ran /\ Bound
    /\ ~Selected.panic /\ Selected.line # None
    /\ result.kind = "Err"
    /\ result.message[1] = "[err:002]"
    /\ \E i \in DOMAIN Selected.line[1].cell :
          validate_cell(Selected.line[1].cell[i], record_text).kind = "Err"

\* C10: a cell whose byte range is not wholly inside the record makes the
\* validation return err:003 for the first such cell, also when the cell
\* carries a line condition (here: the conditioned cells of the first
\* candidate, which the selection examines before anything else).
C10_RangeErrorForConditionedCell ==
    (Ran /\ Bound /\ get_line_conditions(schema) # <<>>) =>
        LET cc == get_line_conditions(schema)[1].cells
            out == {i \in DOMAIN cc : StrGet(record_text, cc[i].start, cc[i].end) = None}
        IN  out # {} =>
                LET c == cc[CHOOSE i \in out : \A j \in out : i <= j]
                IN  result = LineErr(record_number,
                                     <<"[err:003]", c.name, "range", "invalid", c.start, c.end>>)

(***************************************************************************)
(* Claims about the Parser, checked under SpecParser.                      *)
(***************************************************************************)
\* C4: record numbers are consecutive from 1: the k-th record the reader
\* yields carries the number k, in the sequential iterator (every item it
\* returns, valid, invalid or unreadable) and in parser_all (every pair sent
\* to the workers, every result, and the error returned for an unreadable
\* record).
C4_ConsecutiveRecordNumbers ==
    /\ \A k \in DOMAIN items : items[k].kind # "None" => items[k].line = k
    /\ \A i \in DOMAIN channel :
          channel[i][1] = all_line_number - Len(channel) + i - 1
    /\ \A w \in DOMAIN results : \A i \in DOMAIN results[w] :
          results[w][i].kind # "Panic" =>
              /\ results[w][i].line \in 1..(all_line_number - 1)
              /\ ret[results[w][i].line].kind = "Ok"
    /\ (pc = "done" /\ returned # None /\ ret # <<>> /\ Last(ret).kind = "Err")
          => returned[1].errors[1].line = Len(ret)

(***************************************************************************)
(* Claims about the cells of the selected line and about the loader,       *)
(* checked under SpecValidate.                                             *)
(***************************************************************************)
\* the selection ended with a line and the record passed the length check
CellsReached ==
    /\ Ran /\ Bound
    /\ ~Selected.panic /\ Selected.line # None
    /\ ~maxlength_mismatch(Selected.line[1], record_text)

SelectedCells == Selected.line[1].cell

\* the cells of the selected line that do not validate, by position
FailingCells ==
    {i \in DOMAIN SelectedCells : validate_cell(SelectedCells[i], record_text).kind # "Ok"}

FirstFailingCell == CHOOSE i \in FailingCells : \A j \in FailingCells : i <= j

\* C11: the cells of the selected line are validated in declaration order
\* and validation stops at the first failing cell: the record's error is
\* that cell's message, whatever the later cells would give (another error,
\* or an abort).
C11_FirstFailingCellDecides ==
    (CellsReached /\ FailingCells # {}
       /\ validate_cell(SelectedCells[FirstFailingCell], record_text).kind = "Err")
        => result = LineErr(record_number,
                            validate_cell(SelectedCells[FirstFailingCell], record_text).message)

\* C11 witness: a record was rejected for its first cell although a later
\* cell of the line does not validate either.
C11_Witness ==
    /\ CellsReached
    /\ Cardinality(FailingCells) >= 2
    /\ result.kind = "Err"
    /\ result.message[2] = SelectedCells[FirstFailingCell].name
    /\ \E j \in FailingCells :
          validate_cell(SelectedCells[j], record_text).kind = "Panic"

\* C12: for a successfully validated record the keys of cell_values, in
\* iteration order, are the names of the selected line's cells in
\* declaration order, one entry per declared cell.
C12_KeysAreCellNames ==
    (CellsReached /\ result.kind = "Ok") =>
        [k \in DOMAIN result.cell_values |-> result.cell_values[k][1]]
            = [i \in DOMAIN SelectedCells |-> SelectedCells[i].name]

\* the effective alignment of a cell: the explicit one if non-empty, else
\* right for a number format, else left
EffectiveAlignment(cell) ==
    IF cell.alignment # "" THEN cell.alignment
    ELSE IF cell.format # None /\ cell.format[1].ctype = "number" THEN "right"
    ELSE "left"

\* text[start..end] with the pad characters trimmed on the side the
\* alignment tells
TrimmedValue(cell, text) ==
    LET v == SubSeq(text, cell.start + 1, cell.end)
        pads == Range(cell.padcharacter)
    IN  CASE EffectiveAlignment(cell) = "right"  -> TrimStart(v, pads)
          [] EffectiveAlignment(cell) = "left"   -> TrimEnd(v, pads)
          [] EffectiveAlignment(cell) = "center" -> TrimBoth(v, pads)
          [] OTHER                               -> v

\* C13: for a successfully validated record and every cell, with or without
\* a format, the recorded value is text[start..end] trimmed according to the
\* effective alignment.
C13_ValuesAreTrimmed ==
    (CellsReached /\ result.kind = "Ok") =>
        \A i \in DOMAIN SelectedCells :
            \A k \in DOMAIN result.cell_values :
                (result.cell_values[k][1] = SelectedCells[i].name
                   /\ \A j \in DOMAIN SelectedCells :
                         SelectedCells[j].name = SelectedCells[i].name => j = i)
                    => result.cell_values[k][2] = TrimmedValue(SelectedCells[i], record_text)

\* C14: in every schema that Schema::new returns, the linetype values of the
\* lines are pairwise distinct.
C14_LinetypesAreDistinct ==
    Bound =>
        \A i, j \in DOMAIN SchemaLines :
            SchemaLines[i].linetype = SchemaLines[j].linetype => i = j

\* C15: every schema that Schema::new returns is of the fixed-width kind:
\* fixedwidthschema is Some (and so get_schema_type does not abort).
C15_SchemaIsFixedWidth == schema.fixedwidthschema # None


(***************************************************************************)
(* DecimalFormat (SpecDecimal).  What a pattern means is written here from *)
(* the pattern's grammar, without the regular expressions.                 *)
(***************************************************************************)
\* DecimalFormat::new has returned Ok for called_pattern
FormatMade == decimal_format # None /\ decimal_format[1].ok

\* DecimalFormat::new has returned an error for called_pattern
FormatRefused == decimal_format # None /\ ~decimal_format[1].ok

\* validate_number has been called on the DecimalFormat of called_pattern
NumberChecked == FormatMade /\ number_checked.called

\* position i of pattern p is outside quotes: it is not a quote and an even
\* number of quotes stands before it
IsUnquoted(p, i) ==
    /\ p[i] # 39
    /\ Cardinality({k \in 1..(i - 1) : p[k] = 39}) % 2 = 0

IsQuoted(p, i) ==
    /\ p[i] # 39
    /\ Cardinality({k \in 1..(i - 1) : p[k] = 39}) % 2 = 1

\* the positions of the unquoted ";" of p
UnquotedSemicolons(p) == {i \in DOMAIN p : IsUnquoted(p, i) /\ p[i] = 59}

\* the positive sub-pattern of p and, where p gives one, the negative
PositivePart(p) ==
    IF UnquotedSemicolons(p) = {} THEN p
    ELSE SubSeq(p, 1, (CHOOSE i \in UnquotedSemicolons(p) :
                          \A k \in UnquotedSemicolons(p) : i <= k) - 1)

NegativePart(p) ==
    IF UnquotedSemicolons(p) = {} THEN p
    ELSE SubSeq(p, (CHOOSE i \in UnquotedSemicolons(p) :
                       \A k \in UnquotedSemicolons(p) : i <= k) + 1, Len(p))

\* what position i of sub-pattern p asks of the input: a digit, at most one
\* digit, nothing (a parenthesis) or one given character
PatternElement(p, i) ==
    IF IsQuoted(p, i) THEN [kind |-> "lit", ch |-> p[i]]
    ELSE CASE p[i] = 48        -> [kind |-> "digit", ch |-> 0]
           [] p[i] = 35        -> [kind |-> "optional", ch |-> 0]
           [] p[i] \in {40, 41} -> [kind |-> "group", ch |-> 0]
           [] p[i] = 164       -> [kind |-> "lit", ch |-> 36]
           [] OTHER            -> [kind |-> "lit", ch |-> p[i]]

IsDigit(ch) == ch \in 48..57

\* the whole of s from position j on is what p asks for from position i on
RECURSIVE PatternFits(_, _, _, _)
PatternFits(p, i, s, j) ==
    IF i > Len(p) THEN j = Len(s) + 1
    ELSE IF p[i] = 39 THEN PatternFits(p, i + 1, s, j)
    ELSE CASE PatternElement(p, i).kind = "group" -> PatternFits(p, i + 1, s, j)
           [] PatternElement(p, i).kind = "optional" ->
                  \/ PatternFits(p, i + 1, s, j)
                  \/ j <= Len(s) /\ IsDigit(s[j]) /\ PatternFits(p, i + 1, s, j + 1)
           [] PatternElement(p, i).kind = "digit" ->
                  j <= Len(s) /\ IsDigit(s[j]) /\ PatternFits(p, i + 1, s, j + 1)
           [] OTHER ->
                  j <= Len(s) /\ s[j] = PatternElement(p, i).ch
                              /\ PatternFits(p, i + 1, s, j + 1)

\* s is a number of pattern p: its positive form, or "-" and its negative
NumberFits(p, s) ==
    \/ PatternFits(PositivePart(p), 1, s, 1)
    \/ s # <<>> /\ s[1] = 45 /\ PatternFits(NegativePart(p), 1, Tail(s), 1)

\* C16: validate_number accepts a value exactly when the whole value is what
\* the pattern asks for: one digit for each unquoted 0, at most one digit for
\* each unquoted #, the character itself for each unquoted "," and ".".
C16_DigitsAndSeparators ==
    NumberChecked =>
        (number_checked.accepted <=> NumberFits(called_pattern, number_checked.value))


\* the quoted characters of sub-pattern p from position i on, in order
RECURSIVE QuotedChars(_, _)
QuotedChars(p, i) ==
    IF i > Len(p) THEN <<>>
    ELSE (IF IsQuoted(p, i) THEN <<p[i]>> ELSE <<>>) \o QuotedChars(p, i + 1)

\* the characters of a stand in s, in that order
RECURSIVE IsSubsequence(_, _)
IsSubsequence(a, s) ==
    IF a = <<>> THEN TRUE
    ELSE IF s = <<>> THEN FALSE
    ELSE IF a[1] = s[1] THEN IsSubsequence(Tail(a), Tail(s))
    ELSE IsSubsequence(a, Tail(s))

\* every character of sub-pattern p is a quote or quoted
IsAllQuoted(p) == \A i \in DOMAIN p : p[i] = 39 \/ IsQuoted(p, i)

\* C17: a quoted character of the pattern is a literal: an accepted value
\* holds the quoted characters of the positive or of the negative
\* sub-pattern, in order, and a pattern that is nothing but a quoted text
\* accepts that text.
C17_QuotedIsLiteral ==
    NumberChecked =>
        /\ number_checked.accepted =>
              \/ IsSubsequence(QuotedChars(PositivePart(called_pattern), 1),
                               number_checked.value)
              \/ IsSubsequence(QuotedChars(NegativePart(called_pattern), 1),
                               number_checked.value)
        /\ (IsAllQuoted(called_pattern)
               /\ number_checked.value = QuotedChars(called_pattern, 1))
              => number_checked.accepted


\* the characters a pattern may hold outside quotes:
\* ' ( ) 0 . , # ; U+00A4 %
RecognizedChars == {39, 40, 41, 48, 46, 44, 35, 59, 164, 37}

\* pattern p holds, outside quotes, a character that is not recognized
HasUnknownChar(p) ==
    \E i \in DOMAIN p : IsUnquoted(p, i) /\ p[i] \notin RecognizedChars

MatchesSubPattern(p, s) == RegexIsMatch(pattern_to_regex(p), s)

\* C20: the accepted values are exactly the values matching the positive
\* sub-pattern and the values made of "-" and a value matching the negative
\* sub-pattern, which is the positive one where the pattern gives no other.
C20_NegativeIsMinusPrefixed ==
    NumberChecked =>
        (number_checked.accepted <=>
            \/ MatchesSubPattern(PositivePart(called_pattern), number_checked.value)
            \/ /\ number_checked.value # <<>>
               /\ number_checked.value[1] = 45
               /\ MatchesSubPattern(NegativePart(called_pattern),
                                    Tail(number_checked.value)))


(***************************************************************************)
(* Claims about rebuilt records, the two groups of lines and the offsets   *)
(* of the cells, checked under SpecValidate.                               *)
(***************************************************************************)
\* the value cell_values holds for a name
RecordedValue(name) ==
    result.cell_values[CHOOSE k \in DOMAIN result.cell_values :
                          result.cell_values[k][1] = name][2]

\* n pad characters of a cell (none where the cell has no pad character)
RECURSIVE Padding(_, _)
Padding(cell, n) ==
    IF n <= 0 \/ cell.padcharacter = <<>> THEN <<>>
    ELSE <<cell.padcharacter[1]>> \o Padding(cell, n - 1)

\* a value laid out in its cell: padded to the cell's length before the
\* value (right), behind it (left) or on both sides (center)
LaidOut(cell, v) ==
    LET n == cell.length - Len(v)
    IN  CASE EffectiveAlignment(cell) = "right"  -> Padding(cell, n) \o v
          [] EffectiveAlignment(cell) = "center" ->
                 Padding(cell, n \div 2) \o v \o Padding(cell, n - (n \div 2))
          [] OTHER                               -> v \o Padding(cell, n)

\* the record rebuilt from the recorded values of the selected line's cells
Rebuilt ==
    Flatten([i \in DOMAIN SelectedCells |->
                LaidOut(SelectedCells[i], RecordedValue(SelectedCells[i].name))])

\* C21: a record that validates as line type T with cell values V, rebuilt
\* from V by padding each value to its cell, validates again as T with V.
C21_RebuiltRecordValidatesAlike ==
    (CellsReached /\ result.kind = "Ok") =>
        /\ validate_line(schema, record_number, Rebuilt).kind = "Ok"
        /\ validate_line(schema, record_number, Rebuilt).linetype = result.linetype
        /\ validate_line(schema, record_number, Rebuilt).cell_values = result.cell_values


(***************************************************************************)
(* Claims about the separator, checked under SpecReader.                   *)
(***************************************************************************)
\* no proper prefix of S is a suffix of S
NoSelfOverlap(S) ==
    /\ S # <<>>
    /\ \A k \in 1..(Len(S) - 1) : SubSeq(S, 1, k) # SubSeq(S, Len(S) - k + 1, Len(S))

\* S stands somewhere in s
Contains(s, S) ==
    \E i \in 0..(Len(s) - Len(S)) : SubSeq(s, i + 1, i + Len(S)) = S

\* C22: with a separator S that has no self-overlap, every occurrence of S
\* in the input ends a record: no record the reader yields contains S.
C22_NoRecordContainsSeparator ==
    NoSelfOverlap(ExpandSeparator(separator)) =>
        \A k \in DOMAIN ret :
            ret[k].kind = "Ok" => ~Contains(ret[k].line, ExpandSeparator(separator))


\* C23: the expanded separator is never empty and next() never reads past
\* its end: no call aborts on separator_bytes[match_index].
C23_SeparatorIsNeverEmpty ==
    (ret # <<>> \/ aborted) =>
        /\ ExpandSeparator(separator) # <<>>
        /\ ~aborted


\* the bytes of a character (its UTF-8 encoding, up to U+07FF)
CharBytes(ch) ==
    IF ch < 128 THEN <<ch>>
    ELSE <<192 + (ch \div 64), 128 + (ch % 64)>>

\* the bytes the raw separator stands for: \n \r \t \f \0 are 0x0A 0x0D 0x09
\* 0x0C 0x00, a backslash before another character gives that character, a
\* trailing backslash nothing, any other character itself
RECURSIVE SeparatorMeant(_)
SeparatorMeant(chars) ==
    IF chars = <<>> THEN <<>>
    ELSE IF chars[1] = 92
         THEN IF Len(chars) = 1 THEN <<>>
              ELSE (CASE chars[2] = 110 -> <<10>>
                      [] chars[2] = 114 -> <<13>>
                      [] chars[2] = 116 -> <<9>>
                      [] chars[2] = 102 -> <<12>>
                      [] chars[2] = 48  -> <<0>>
                      [] OTHER          -> CharBytes(chars[2]))
                   \o SeparatorMeant(SubSeq(chars, 3, Len(chars)))
         ELSE CharBytes(chars[1]) \o SeparatorMeant(SubSeq(chars, 2, Len(chars)))

\* C24: once next() has been called, the separator it compared the input
\* with is the raw separator with its escapes expanded, character by
\* character and in order.
C24_SeparatorExpansion ==
    ret # <<>> => ExpandSeparator(separator) = SeparatorMeant(separator)



(***************************************************************************)
(* Claims about the condition of a candidate, the two groups of lines and  *)
(* the offsets of the cells, checked under SpecValidate.                   *)
(***************************************************************************)
\* what the loop over the conditioned cells of a line gives for the record
ConditionResult(line) ==
    ConditionLoop(ConditionedCells(line), 1, record_text, FALSE)

\* the schema lines of the result's linetype
LinesOfResult == {i \in DOMAIN SchemaLines : SchemaLines[i].linetype = result.linetype}

\* C25: for a candidate with several conditioned cells the condition is what
\* the last evaluated conditioned cell compares to (a cell failing its own
\* format is skipped and leaves the earlier comparison in place); earlier
\* comparisons do not count, a candidate whose cells are all skipped is not
\* met, and a candidate the record was accepted under had its condition met.
C25_LastEvaluatedCellDecides ==
    (Ran /\ Bound) =>
        /\ \A i \in DOMAIN SchemaLines :
              (ConditionedCells(SchemaLines[i]) # <<>>
                 /\ ConditionResult(SchemaLines[i]) # "Panic") =>
                    (ConditionResult(SchemaLines[i]) = "Met"
                        <=> ConditionMet(SchemaLines[i], record_text))
        /\ (result.kind = "Ok" /\ Cardinality(LinesOfResult) = 1) =>
              \A i \in LinesOfResult :
                  ConditionedCells(SchemaLines[i]) # <<>> =>
                      ConditionMet(SchemaLines[i], record_text)

\* C25 witness: a record was accepted under a candidate with two conditioned
\* cells, both evaluated, of which the first does not compare equal to its
\* pattern.
C25_Witness ==
    /\ Ran /\ Bound /\ result.kind = "Ok"
    /\ \E i \in LinesOfResult :
          LET cc == ConditionedCells(SchemaLines[i])
          IN  /\ Cardinality(LinesOfResult) = 1
              /\ Len(cc) = 2
              /\ validate_cell(cc[1], record_text).kind = "Ok"
              /\ validate_cell(cc[2], record_text).kind = "Ok"
              /\ SubSeq(record_text, cc[1].start + 1, cc[1].end)
                    # cc[1].linecondition_pattern[1]
              /\ ConditionMet(SchemaLines[i], record_text)



\* the k-th smallest member of a set of indexes
Nth(S, k) == CHOOSE i \in S : Cardinality({j \in S : j < i}) = k - 1

\* the lines with at least one conditioned cell
CandidateLines ==
    {i \in DOMAIN SchemaLines :
        \E j \in DOMAIN SchemaLines[i].cell : HasCondition(SchemaLines[i].cell[j])}

\* the conditioned cells of a line, as indexes
ConditionedIndexes(line) == {j \in DOMAIN line.cell : HasCondition(line.cell[j])}

\* C26: get_first_line_without_condition returns Some exactly when exactly
\* one line has no conditioned cell (and then that line), else None;
\* get_line_conditions returns, in schema order, exactly the lines with at
\* least one conditioned cell, each with only its conditioned cells; every
\* line is in exactly one of the two groups.
C26_TwoGroupsOfLines ==
    (Ran /\ Bound) =>
        /\ get_first_line_without_condition(schema) =
              IF Cardinality(UnconditionedLines) = 1
              THEN Some(SchemaLines[CHOOSE i \in UnconditionedLines : TRUE])
              ELSE None
        /\ Len(get_line_conditions(schema)) = Cardinality(CandidateLines)
        /\ \A k \in DOMAIN get_line_conditions(schema) :
              LET line == SchemaLines[Nth(CandidateLines, k)]
                  group == get_line_conditions(schema)[k]
              IN  /\ group.linetype = line.linetype
                  /\ Len(group.cells) = Cardinality(ConditionedIndexes(line))
                  /\ \A m \in DOMAIN group.cells :
                        group.cells[m] = line.cell[Nth(ConditionedIndexes(line), m)]
        /\ CandidateLines \cup UnconditionedLines = DOMAIN SchemaLines
        /\ CandidateLines \cap UnconditionedLines = {}

\* C26 witness: validate_line ran on a schema with one line without
\* condition and two lines with one, one of which has an unconditioned cell
\* beside its conditioned one.
C26_Witness ==
    /\ Ran /\ Bound
    /\ Cardinality(UnconditionedLines) = 1
    /\ get_first_line_without_condition(schema) # None
    /\ Len(get_line_conditions(schema)) >= 2
    /\ \E i \in CandidateLines :
          Cardinality(ConditionedIndexes(SchemaLines[i])) < Len(SchemaLines[i].cell)



\* C27: once a schema is loaded, the cells of each line tile the record from
\* offset 0: the first cell starts at 0, every cell ends at its start plus
\* its length, and every later cell starts where the one before it ends;
\* offsets never carry over from one line to the next.
C27_CellsTileFromZero ==
    (Ran /\ Bound) =>
        \A i \in DOMAIN SchemaLines :
            LET cells == SchemaLines[i].cell
            IN  \A j \in DOMAIN cells :
                    /\ cells[j].start = (IF j = 1 THEN 0 ELSE cells[j - 1].end)
                    /\ cells[j].end = cells[j].start + cells[j].length

\* C28: every cell of every loaded schema has start < end, whatever its
\* length attribute is (missing, zero, not a number).
C28_CellsAreNotEmpty ==
    (Ran /\ Bound) =>
        \A i \in DOMAIN SchemaLines :
            \A j \in DOMAIN SchemaLines[i].cell :
                SchemaLines[i].cell[j].start < SchemaLines[i].cell[j].end



(***************************************************************************)
(* Claims about the cache of decimal formats, checked under SpecCache.     *)
(***************************************************************************)
\* "", "0", "9", "55", "-7", "+" and "["
CacheNumbers == { <<>>, <<48>>, <<57>>, <<53, 53>>, <<45, 55>>, <<43>>, <<91>> }

\* what the calls that returned were given: the result of compiling their
\* pattern, whether the cache served it or not
ReturnsAreAlike ==
    \A t \in DOMAIN threads :
        threads[t].format # None =>
            /\ threads[t].format[1].ok = DecimalFormatNew(threads[t].pattern).ok
            /\ threads[t].format[1].ok =>
                  /\ threads[t].pattern \in DOMAIN decimal_format_cache
                  /\ \A value \in CacheNumbers :
                        validate_number(threads[t].format[1], value)
                           = validate_number(DecimalFormatNew(threads[t].pattern), value)
            /\ ~threads[t].format[1].ok =>
                  threads[t].pattern \notin DOMAIN decimal_format_cache

\* the cache holds nothing for a pattern that does not compile
OnlyCompiledEntries ==
    \A p \in DOMAIN decimal_format_cache :
        decimal_format_cache[p].ok /\ DecimalFormatNew(p).ok

\* a step keeps every entry as it is and inserts at most one
EntriesAreKept ==
    /\ \A p \in DOMAIN decimal_format_cache :
          /\ p \in DOMAIN decimal_format_cache'
          /\ decimal_format_cache'[p] = decimal_format_cache[p]
    /\ Cardinality(DOMAIN decimal_format_cache')
          <= Cardinality(DOMAIN decimal_format_cache) + 1

\* C29: under any interleaving of DecimalFormat::new calls from several
\* threads, at most one entry per pattern is inserted, an entry is never
\* removed or replaced, a failed compile inserts nothing, and the returned
\* DecimalFormat accepts the same inputs whether it was built or cached.
C29_CacheIsConsistent ==
    /\ [](OnlyCompiledEntries /\ ReturnsAreAlike)
    /\ [][EntriesAreKept]_vars

\* C29 witness: a thread was served from the cache the pattern another
\* thread had compiled and inserted, while the cache holds one entry.
C29_Witness ==
    \E t1, t2 \in DOMAIN threads :
        /\ t1 # t2
        /\ threads[t1].format # None /\ threads[t1].format[1].ok /\ ~threads[t1].hit
        /\ threads[t2].format # None /\ threads[t2].hit
        /\ threads[t2].pattern = threads[t1].pattern
        /\ DOMAIN decimal_format_cache = {threads[t1].pattern}



(***************************************************************************)
(* Claims about parser_all and its workers, checked under SpecParser.      *)
(***************************************************************************)
IsRecord(item) == item.kind = "Ok"

\* the records of the file, in order: the n-th one has the number n
RecordsRead == SelectSeq(ret, IsRecord)

\* the numbers of the records that validate_line rejects
FailingRecords ==
    {n \in DOMAIN RecordsRead :
        Parser_validate_line(schema, n, RecordsRead[n].line).kind = "Err"}

\* C30: whatever the number of workers and the interleaving, once parser_all
\* has returned for a file whose records could all be read, it returned
\* Ok(()) exactly when every record passes validate_line, and otherwise one
\* error per failing record, carrying that record's number.
C30_FanOutIsSequential ==
    (pc = "done" /\ returned # None /\ \A k \in DOMAIN ret : ret[k].kind # "Err") =>
        /\ returned[1].kind = "Ok" <=> FailingRecords = {}
        /\ returned[1].kind = "Err" =>
              /\ Len(returned[1].errors) = Cardinality(FailingRecords)
              /\ {returned[1].errors[i].line : i \in DOMAIN returned[1].errors}
                    = FailingRecords

=============================================================================
